---- MODULE Spec2Model ----
(***************************************************************************)
(* Model of the document merge engine (backend/services/merge_engine.py)   *)
(* and of the merge endpoints that store and resolve a merge               *)
(* (backend/routers/merge.py).                                             *)
(*                                                                         *)
(* A Python str is a sequence of Unicode code points (naturals): "a" is    *)
(* <<97>>, "\n" is <<10>>, "" is <<>>.  Python indices are 0-based, TLA+   *)
(* sequences 1-based: a[i] of the code is a[i+1] here.  An Optional value  *)
(* is None (<<>>) or Some(x) (<<x>>).  A float similarity is the pair      *)
(* <<numerator, denominator>> of the ratio the code computes.              *)
(***************************************************************************)
EXTENDS Integers, Sequences, FiniteSets, TLC

None == <<>>

Some(x) == <<x>>

\* In(value): the value is named once and used where In uses its argument
With(value, In(_)) == In(value)

\* In(value) with the value computed first, whether or not In uses it
Strict(value, In(_)) == CHOOSE r \in {In(v) : v \in {value}} : TRUE

SetMax(S) == CHOOSE x \in S : \A y \in S : y <= x

SetMin(S) == CHOOSE x \in S : \A y \in S : x <= y

\* a[lo:hi] of Python (0-based, hi exclusive)
Slice(a, lo, hi) == SubSeq(a, lo + 1, hi)

RECURSIVE Concat(_)
\* the concatenation of a sequence of strings
Concat(ss) == IF ss = <<>> THEN <<>> ELSE Head(ss) \o Concat(Tail(ss))

RECURSIVE Join(_, _)
\* sep.join(parts)
Join(sep, parts) ==
    IF parts = <<>> THEN <<>>
    ELSE IF Len(parts) = 1 THEN parts[1]
    ELSE parts[1] \o sep \o Join(sep, Tail(parts))

NL == <<10>>

\* the characters str.splitlines() breaks a line at
LineBreaks == {10, 11, 12, 13, 28, 29, 30, 133, 8232, 8233}

RECURSIVE SplitLinesFrom(_, _)
\* str.splitlines() from position pos on: a line ends at the next line break,
\* "\r\n" is one break, and a break at the end of the text opens no further line
SplitLinesFrom(text, pos) ==
    IF pos > Len(text) THEN <<>>
    ELSE With({p \in pos .. Len(text) : text[p] \in LineBreaks}, LAMBDA breaks :
           IF breaks = {} THEN <<SubSeq(text, pos, Len(text))>>
           ELSE With(SetMin(breaks), LAMBDA p :
                  <<SubSeq(text, pos, p - 1)>>
                      \o SplitLinesFrom(text,
                             IF text[p] = 13 /\ p < Len(text) /\ text[p + 1] = 10
                             THEN p + 2 ELSE p + 1)))

\* _split_into_blocks
SplitIntoBlocks(text) == IF text = <<>> THEN <<>> ELSE SplitLinesFrom(text, 1)

(***************************************************************************)
(* difflib.SequenceMatcher without junk (isjunk is None; autojunk is off   *)
(* for the line matchers and has no effect below 200 elements).            *)
(***************************************************************************)
RECURSIVE RunLen(_, _, _, _, _, _)
\* length of the common run of a[i:ahi] and b[j:bhi]
RunLen(a, b, i, j, ahi, bhi) ==
    IF i < ahi /\ j < bhi /\ a[i + 1] = b[j + 1]
    THEN 1 + RunLen(a, b, i + 1, j + 1, ahi, bhi)
    ELSE 0

\* find_longest_match: <<i, j, k>> with a[i:i+k] = b[j:j+k] inside the window,
\* k maximal, then i minimal, then j minimal; <<alo, blo, 0>> without a match
FindLongestMatch(a, b, alo, ahi, blo, bhi) ==
    With([p \in (alo .. ahi - 1) \X (blo .. bhi - 1) |-> RunLen(a, b, p[1], p[2], ahi, bhi)],
         LAMBDA runs :
    With(IF DOMAIN runs = {} THEN 0 ELSE SetMax({runs[p] : p \in DOMAIN runs}),
         LAMBDA best :
      IF best = 0 THEN <<alo, blo, 0>>
      ELSE With({p \in DOMAIN runs : runs[p] = best}, LAMBDA cand :
           With(SetMin({p[1] : p \in cand}), LAMBDA i :
             <<i, SetMin({p[2] : p \in {q \in cand : q[1] = i}}), best>>))))

RECURSIVE MatchingBlocksIn(_, _, _, _, _, _)
\* the matching blocks of a window, in order: the longest match, then
\* recursively the blocks left and right of it
MatchingBlocksIn(a, b, alo, ahi, blo, bhi) ==
    With(FindLongestMatch(a, b, alo, ahi, blo, bhi), LAMBDA m :
      LET i == m[1]
          j == m[2]
          k == m[3]
      IN IF k = 0 THEN <<>>
         ELSE (IF alo < i /\ blo < j THEN MatchingBlocksIn(a, b, alo, i, blo, j) ELSE <<>>)
              \o <<m>>
              \o (IF i + k < ahi /\ j + k < bhi
                  THEN MatchingBlocksIn(a, b, i + k, ahi, j + k, bhi) ELSE <<>>))

RECURSIVE CollapseBlocks(_, _)
\* get_matching_blocks merges adjacent blocks; cur is the block being grown
CollapseBlocks(blocks, cur) ==
    IF blocks = <<>> THEN (IF cur[3] > 0 THEN <<cur>> ELSE <<>>)
    ELSE LET nb == Head(blocks)
         IN IF cur[1] + cur[3] = nb[1] /\ cur[2] + cur[3] = nb[2]
            THEN CollapseBlocks(Tail(blocks), <<cur[1], cur[2], cur[3] + nb[3]>>)
            ELSE (IF cur[3] > 0 THEN <<cur>> ELSE <<>>) \o CollapseBlocks(Tail(blocks), nb)

\* get_matching_blocks(): the collapsed blocks and the sentinel (la, lb, 0)
GetMatchingBlocks(a, b) ==
    CollapseBlocks(MatchingBlocksIn(a, b, 0, Len(a), 0, Len(b)), <<0, 0, 0>>)
        \o << <<Len(a), Len(b), 0>> >>

RECURSIVE OpcodesFrom(_, _, _)
\* get_opcodes(): <<tag, i1, i2, j1, j2>> from the matching blocks
OpcodesFrom(blocks, i, j) ==
    IF blocks = <<>> THEN <<>>
    ELSE LET ai   == Head(blocks)[1]
             bj   == Head(blocks)[2]
             size == Head(blocks)[3]
             tag  == IF i < ai /\ j < bj THEN "replace"
                     ELSE IF i < ai THEN "delete"
                     ELSE IF j < bj THEN "insert"
                     ELSE ""
         IN (IF tag # "" THEN << <<tag, i, ai, j, bj>> >> ELSE <<>>)
            \o (IF size > 0 THEN << <<"equal", ai, ai + size, bj, bj + size>> >> ELSE <<>>)
            \o OpcodesFrom(Tail(blocks), ai + size, bj + size)

GetOpcodes(a, b) == OpcodesFrom(GetMatchingBlocks(a, b), 0, 0)

RECURSIVE SumSizes(_)
SumSizes(blocks) == IF blocks = <<>> THEN 0 ELSE Head(blocks)[3] + SumSizes(Tail(blocks))

\* ratio(): 2.0 * matches / (len(a) + len(b)), 1.0 for two empty sequences
Ratio(a, b) ==
    IF Len(a) + Len(b) = 0 THEN <<1, 1>>
    ELSE <<2 * SumSizes(GetMatchingBlocks(a, b)), Len(a) + Len(b)>>

(***************************************************************************)
(* MergeEngine helpers                                                     *)
(***************************************************************************)
RECURSIVE DigitsOf(_)
DigitsOf(n) == IF n < 10 THEN <<48 + n>> ELSE Append(DigitsOf(n \div 10), 48 + (n % 10))

\* str(n) for an int
IntToStr(n) == IF n < 0 THEN <<45>> \o DigitsOf(0 - n) ELSE DigitsOf(n)

\* "<<<CONFLICT_"
TokenPrefix == <<60, 60, 60, 67, 79, 78, 70, 76, 73, 67, 84, 95>>

\* ">>>"
TokenSuffix == <<62, 62, 62>>

\* f"<<<CONFLICT_{conflict_idx}>>>"
Token(idx) == TokenPrefix \o IntToStr(idx) \o TokenSuffix

\* "(deleted)"
DeletedMark == <<40, 100, 101, 108, 101, 116, 101, 100, 41>>

\* "(absent)"
AbsentMark == <<40, 97, 98, 115, 101, 110, 116, 41>>

\* str.lower() on one code point: Latin A-Z, Cyrillic U+0410..U+042F and
\* U+0400..U+040F; every other code point of the model has no lower case
LowerChar(c) ==
    IF c >= 65 /\ c <= 90 THEN c + 32
    ELSE IF c >= 1040 /\ c <= 1071 THEN c + 32
    ELSE IF c >= 1024 /\ c <= 1039 THEN c + 80
    ELSE c

Lower(text) == [k \in 1 .. Len(text) |-> LowerChar(text[k])]

\* the code points the pattern \s matches
Whitespace == (9 .. 13) \cup (28 .. 32) \cup {133, 160, 5760} \cup (8192 .. 8202)
              \cup {8232, 8233, 8239, 8287, 12288}

\* the ASCII code points the pattern \d matches
IsDigit(c) == c >= 48 /\ c <= 57

\* _calculate_similarity: 0.0 if either text is empty, else the ratio of the
\* lower-cased texts
CalculateSimilarity(text1, text2) ==
    IF text1 = <<>> \/ text2 = <<>> THEN <<0, 1>>
    ELSE Ratio(Lower(text1), Lower(text2))

\* AboveAutoThreshold with the threshold at 0.5
AboveLowerThreshold(sim) == sim[1] * 100 > 50 * sim[2]

\* AboveAutoThreshold with the threshold at 0.95
AboveHigherThreshold(sim) == sim[1] * 100 > 95 * sim[2]

\* similarity > 0.85
AboveAutoThreshold(sim) == sim[1] * 100 > 85 * sim[2]

\* round(similarity, 2) in hundredths, ties to even (exact for texts whose
\* lengths add up to less than 80)
Round2(sim) ==
    LET q == (sim[1] * 100) \div sim[2]
        r == (sim[1] * 100) % sim[2]
    IN IF 2 * r > sim[2] \/ (2 * r = sim[2] /\ q % 2 = 1) THEN <<q + 1, 100>> ELSE <<q, 100>>

\* IsSignificantContent with the threshold at 0
IsSignificantNonEmpty(text) ==
    Len(SelectSeq(text, LAMBDA c : c \notin Whitespace)) > 0

\* _is_significant_content: more than 10 characters once whitespace is removed
IsSignificantContent(text) ==
    Len(SelectSeq(text, LAMBDA c : c \notin Whitespace)) > 10

RECURSIVE DigitRun(_, _)
\* number of digits of text from position pos (1-based) on
DigitRun(text, pos) ==
    IF pos <= Len(text) /\ IsDigit(text[pos]) THEN 1 + DigitRun(text, pos + 1) ELSE 0

RECURSIVE FindNumbers(_, _)
\* set(re.findall(r'\d+[.,]?\d*', text)) scanning from pos: a match starts at
\* the next digit and takes the digits, one optional "." or ",", and the digits
\* after it
FindNumbers(text, pos) ==
    With({p \in pos .. Len(text) : IsDigit(text[p])}, LAMBDA starts :
      IF starts = {} THEN {}
      ELSE With(SetMin(starts), LAMBDA p :
           With(p + DigitRun(text, p), LAMBDA p2 :
           With(IF p2 <= Len(text) /\ text[p2] \in {46, 44}
                THEN p2 + 1 + DigitRun(text, p2 + 1) ELSE p2, LAMBDA end :
             {SubSeq(text, p, end - 1)} \cup FindNumbers(text, end)))))

\* the length of the match of \d{1,2}[./]\d{1,2}[./]\d{2,4} at pos, 0 if none;
\* each repetition is greedy and backtracks to a shorter count
DateMatchLen(text, pos) ==
    LET n == Len(text)
        IsSep(p) == p <= n /\ text[p] \in {46, 47}
        Digits(p, k) == p + k - 1 <= n /\ \A q \in p .. p + k - 1 : IsDigit(text[q])
        ok(t) == /\ Digits(pos, t[1]) /\ IsSep(pos + t[1])
                 /\ Digits(pos + t[1] + 1, t[2]) /\ IsSep(pos + t[1] + 1 + t[2])
                 /\ Digits(pos + t[1] + t[2] + 2, t[3])
        order == << <<2, 2, 4>>, <<2, 2, 3>>, <<2, 2, 2>>, <<2, 1, 4>>, <<2, 1, 3>>, <<2, 1, 2>>,
                    <<1, 2, 4>>, <<1, 2, 3>>, <<1, 2, 2>>, <<1, 1, 4>>, <<1, 1, 3>>, <<1, 1, 2>> >>
    IN With({k \in 1 .. 12 : ok(order[k])}, LAMBDA hits :
         IF hits = {} THEN 0
         ELSE With(order[SetMin(hits)], LAMBDA t : t[1] + t[2] + t[3] + 2))

RECURSIVE FindDates(_, _)
\* set(re.findall(r'\d{1,2}[./]\d{1,2}[./]\d{2,4}', text)) scanning from pos
FindDates(text, pos) ==
    With({p \in pos .. Len(text) : DateMatchLen(text, p) > 0}, LAMBDA starts :
      IF starts = {} THEN {}
      ELSE With(SetMin(starts), LAMBDA p :
           With(DateMatchLen(text, p), LAMBDA k :
             {SubSeq(text, p, p + k - 1)} \cup FindDates(text, p + k))))

\* needle in text
Contains(text, needle) ==
    \E p \in 1 .. Len(text) - Len(needle) + 1 : SubSeq(text, p, p + Len(needle) - 1) = needle

\* "liability", "penalty", "fine", "obligation", "right"
LegalTerms == {
    <<108, 105, 97, 98, 105, 108, 105, 116, 121>>,
    <<112, 101, 110, 97, 108, 116, 121>>,
    <<102, 105, 110, 101>>,
    <<111, 98, 108, 105, 103, 97, 116, 105, 111, 110>>,
    <<114, 105, 103, 104, 116>> }

\* _analyze_conflict; old_numbers / new_numbers are list(set), kept as sets
\* (None where the key is absent)
AnalyzeConflict(text1, text2) ==
    With(FindNumbers(text1, 1), LAMBDA nums1 :
    With(FindNumbers(text2, 1), LAMBDA nums2 :
    With(FindDates(text1, 1), LAMBDA dates1 :
    With(FindDates(text2, 1), LAMBDA dates2 :
    With(\E term \in LegalTerms : Contains(Lower(text1 \o text2), term), LAMBDA legal :
      [ type         |-> IF legal THEN "legal"
                         ELSE IF dates1 # dates2 THEN "temporal"
                         ELSE IF nums1 # nums2 THEN "numerical"
                         ELSE "unknown",
        significance |-> IF legal THEN "critical"
                         ELSE IF dates1 # dates2 \/ nums1 # nums2 THEN "high"
                         ELSE "medium",
        old_numbers  |-> IF nums1 # nums2 THEN Some(nums1) ELSE None,
        new_numbers  |-> IF nums1 # nums2 THEN Some(nums2) ELSE None ])))))

\* the fixed analysis dicts of the delete, insert and N-way conflicts
FixedAnalysis(type, significance) ==
    [type |-> type, significance |-> significance, old_numbers |-> None, new_numbers |-> None]

Variant(source, content, line_count) ==
    [source |-> source, content |-> content, line_count |-> line_count]

\* a conflict dict; keys the code leaves out are None
Conflict(index, location, type, variants, similarity, consensus, analysis) ==
    [ index |-> index, location |-> location, type |-> type, variants |-> variants,
      similarity |-> similarity, consensus_variant |-> consensus, analysis |-> analysis ]

(***************************************************************************)
(* MergeEngine: two-way, three-way and N-way merge.  A document is the     *)
(* record [id, content, name]; a merge result is the record               *)
(* [merged_content, conflicts, auto_resolved, merge_stats].               *)
(***************************************************************************)
MergeResult(merged_lines, conflicts, auto_resolved, stats) ==
    [ merged_content |-> Join(NL, merged_lines), conflicts |-> conflicts,
      auto_resolved |-> auto_resolved, merge_stats |-> stats ]

\* the loop variables of the merge loops
Acc(merged_lines, conflicts, conflict_idx, auto_resolved) ==
    [ merged_lines |-> merged_lines, conflicts |-> conflicts,
      conflict_idx |-> conflict_idx, auto_resolved |-> auto_resolved ]

\* WithConflict that forgets the placeholder
WithConflictNoToken(acc, c) ==
    Acc(acc.merged_lines, Append(acc.conflicts, c), acc.conflict_idx + 1, acc.auto_resolved)

\* an unresolved conflict is appended, its placeholder emitted, the index advanced
WithConflict(acc, c) ==
    Acc(Append(acc.merged_lines, Token(acc.conflict_idx)), Append(acc.conflicts, c),
        acc.conflict_idx + 1, acc.auto_resolved)

\* the body of the opcode loop of _two_way_merge for one opcode
TwoWayStep(acc, op, lines1, lines2, doc1, doc2, allow_auto_resolve) ==
    LET tag == op[1]
        i1  == op[2]
        i2  == op[3]
        j1  == op[4]
        j2  == op[5]
    IN
    With(Join(NL, Slice(lines1, i1, i2)), LAMBDA old_text :
    With(Join(NL, Slice(lines2, j1, j2)), LAMBDA new_text :
    With(CalculateSimilarity(old_text, new_text), LAMBDA similarity :
       CASE tag = "equal" ->
              [acc EXCEPT !.merged_lines = @ \o Slice(lines1, i1, i2)]
         [] tag = "replace" ->
              IF allow_auto_resolve /\ AboveAutoThreshold(similarity)
              THEN [acc EXCEPT !.merged_lines = @ \o Slice(lines2, j1, j2),
                               !.auto_resolved = @ + 1]
              ELSE WithConflict(acc,
                     Conflict(acc.conflict_idx, <<"lines", i1 + 1, i2>>, "REPLACE",
                              << Variant(doc1.name, old_text, i2 - i1),
                                 Variant(doc2.name, new_text, j2 - j1) >>,
                              Some(Round2(similarity)), None,
                              Some(AnalyzeConflict(old_text, new_text))))
         [] tag = "delete" ->
              IF IsSignificantContent(old_text)
              THEN WithConflict(acc,
                     Conflict(acc.conflict_idx, <<"lines", i1 + 1, i2>>, "DELETE",
                              << Variant(doc1.name, old_text, i2 - i1),
                                 Variant(doc2.name, DeletedMark, 0) >>,
                              Some(<<0, 1>>), None,
                              Some(FixedAnalysis("deletion", "high"))))
              ELSE IF allow_auto_resolve
                   THEN [acc EXCEPT !.auto_resolved = @ + 1]
                   ELSE acc
         [] tag = "insert" ->
              IF IsSignificantContent(new_text)
              THEN IF allow_auto_resolve
                   THEN \* recorded as resolved; conflict_idx is not advanced
                        [acc EXCEPT
                           !.conflicts = Append(@,
                               Conflict(acc.conflict_idx, <<"after line", i1>>, "INSERT",
                                        << Variant(doc1.name, AbsentMark, 0),
                                           Variant(doc2.name, new_text, j2 - j1) >>,
                                        Some(<<0, 1>>), Some(1),
                                        Some(FixedAnalysis("addition", "medium")))),
                           !.merged_lines = @ \o Slice(lines2, j1, j2)]
                   ELSE WithConflict(acc,
                          Conflict(acc.conflict_idx, <<"after line", i1>>, "INSERT",
                                   << Variant(doc1.name, AbsentMark, 0),
                                      Variant(doc2.name, new_text, j2 - j1) >>,
                                   Some(<<0, 1>>), None,
                                   Some(FixedAnalysis("addition", "medium"))))
              ELSE [acc EXCEPT !.merged_lines = @ \o Slice(lines2, j1, j2),
                               !.auto_resolved = IF allow_auto_resolve THEN @ + 1 ELSE @])))

RECURSIVE TwoWayLoop(_, _, _, _, _, _, _, _)
TwoWayLoop(acc, opcodes, k, lines1, lines2, doc1, doc2, allow_auto_resolve) ==
    IF k > Len(opcodes) THEN acc
    ELSE TwoWayLoop(TwoWayStep(acc, opcodes[k], lines1, lines2, doc1, doc2, allow_auto_resolve),
                    opcodes, k + 1, lines1, lines2, doc1, doc2, allow_auto_resolve)

\* _two_way_merge
TwoWayMerge(doc1, doc2, strategy) ==
    With(SplitIntoBlocks(doc1.content), LAMBDA lines1 :
    With(SplitIntoBlocks(doc2.content), LAMBDA lines2 :
    With(GetOpcodes(lines1, lines2), LAMBDA opcodes :
    With(TwoWayLoop(Acc(<<>>, <<>>, 0, 0), opcodes, 1, lines1, lines2,
                    doc1, doc2, strategy # "MANUAL"), LAMBDA acc :
      MergeResult(acc.merged_lines, acc.conflicts, acc.auto_resolved,
         [ total_blocks |-> Len(lines1) + Len(lines2),
           unchanged    |-> Cardinality({k \in 1 .. Len(opcodes) : opcodes[k][1] = "equal"}),
           merged       |-> acc.auto_resolved,
           conflicts    |-> Len(acc.conflicts) ])))))

\* the entries one opcode writes into the changes dict of _extract_changes
ChangesOfOpcode(op, modified) ==
    LET tag == op[1]
        i1  == op[2]
        i2  == op[3]
        j1  == op[4]
        j2  == op[5]
    IN CASE tag = "replace" ->
              [idx \in {x \in i1 .. i2 - 1 : j1 + (x - i1) < j2} |->
                 [type |-> "replace", content |-> modified[j1 + (idx - i1) + 1], length |-> 1]]
         [] tag = "delete" ->
              [idx \in i1 .. i2 - 1 |-> [type |-> "delete", content |-> <<>>, length |-> i2 - i1]]
         [] tag = "insert" /\ i1 > 0 ->
              [idx \in {i1 - 1} |->
                 [type |-> "insert", content |-> Join(NL, Slice(modified, j1, j2)),
                  length |-> j2 - j1]]
         [] OTHER -> [idx \in {} |-> None]

RECURSIVE ExtractChangesFrom(_, _, _, _)
ExtractChangesFrom(opcodes, k, modified, changes) ==
    IF k > Len(opcodes) THEN changes
    ELSE ExtractChangesFrom(opcodes, k + 1, modified,
                            ChangesOfOpcode(opcodes[k], modified) @@ changes)

\* _extract_changes: the dict base-line index -> change, later writes winning
ExtractChanges(opcodes, base, modified) ==
    ExtractChangesFrom(opcodes, 1, modified, [idx \in {} |-> None])

\* changes.get(i)
GetChange(changes, i) == IF i \in DOMAIN changes THEN Some(changes[i]) ELSE None

\* one pass of the while loop of _three_way_merge at base line i: the new
\* loop variables and the new i
ThreeWayStep(acc, i, base_lines, changes1, changes2, doc1, doc2, allow_auto_resolve) ==
    LET change1 == GetChange(changes1, i)
        change2 == GetChange(changes2, i)
        OneSided(change, doc) ==
            IF allow_auto_resolve
            THEN IF change.type = "delete"
                 THEN << [acc EXCEPT !.auto_resolved = @ + 1], i + change.length >>
                 ELSE << [acc EXCEPT !.merged_lines = Append(@, change.content),
                                     !.auto_resolved = @ + 1], i + 1 >>
            ELSE << WithConflict(acc,
                      Conflict(acc.conflict_idx, <<"line", i + 1>>, "THREE_WAY",
                               << Variant("Base", base_lines[i + 1], 1),
                                  Variant(doc.name, change.content, 1) >>,
                               None, None, None)), i + 1 >>
    IN IF change1 = None /\ change2 = None
       THEN << [acc EXCEPT !.merged_lines = Append(@, base_lines[i + 1])], i + 1 >>
       ELSE IF change1 # None /\ change2 = None THEN OneSided(change1[1], doc1)
       ELSE IF change2 # None /\ change1 = None THEN OneSided(change2[1], doc2)
       ELSE IF allow_auto_resolve /\ change1[1].content = change2[1].content
            THEN << [acc EXCEPT !.merged_lines = Append(@, change1[1].content),
                                !.auto_resolved = @ + 1], i + 1 >>
            ELSE << WithConflict(acc,
                      Conflict(acc.conflict_idx, <<"line", i + 1>>, "THREE_WAY",
                               << Variant("Base", base_lines[i + 1], 1),
                                  Variant(doc1.name, change1[1].content, 1),
                                  Variant(doc2.name, change2[1].content, 1) >>,
                               Some(CalculateSimilarity(change1[1].content, change2[1].content)),
                               None,
                               Some(AnalyzeConflict(change1[1].content, change2[1].content)))),
                    i + 1 >>

RECURSIVE ThreeWayLoop(_, _, _, _, _, _, _, _)
ThreeWayLoop(acc, i, base_lines, changes1, changes2, doc1, doc2, allow_auto_resolve) ==
    IF i >= Len(base_lines) THEN acc
    ELSE With(ThreeWayStep(acc, i, base_lines, changes1, changes2, doc1, doc2,
                           allow_auto_resolve), LAMBDA s :
           ThreeWayLoop(s[1], s[2], base_lines, changes1, changes2, doc1, doc2,
                        allow_auto_resolve))

\* _three_way_merge
ThreeWayMerge(base, doc1, doc2, strategy) ==
    With(SplitIntoBlocks(base.content), LAMBDA base_lines :
    With(SplitIntoBlocks(doc1.content), LAMBDA lines1 :
    With(SplitIntoBlocks(doc2.content), LAMBDA lines2 :
    With(ExtractChanges(GetOpcodes(base_lines, lines1), base_lines, lines1),
         LAMBDA changes1 :
    With(ExtractChanges(GetOpcodes(base_lines, lines2), base_lines, lines2),
         LAMBDA changes2 :
    With(ThreeWayLoop(Acc(<<>>, <<>>, 0, 0), 0, base_lines, changes1, changes2,
                      doc1, doc2, strategy # "MANUAL"), LAMBDA acc :
      MergeResult(acc.merged_lines, acc.conflicts, acc.auto_resolved,
         [ total_blocks |-> Len(base_lines),
           unchanged    |-> Len(base_lines) - Cardinality(DOMAIN changes1)
                                            - Cardinality(DOMAIN changes2),
           merged       |-> acc.auto_resolved,
           conflicts    |-> Len(acc.conflicts) ])))))))

\* the variants dict of _multi_way_merge at line_num, in insertion order: one
\* <<line, index of the first document that has it>> per distinct line
RECURSIVE VariantsAt(_, _, _, _)
VariantsAt(all_lines, line_num, i, seen) ==
    IF i > Len(all_lines) THEN seen
    ELSE IF line_num < Len(all_lines[i])
            /\ ~ \E k \in 1 .. Len(seen) : seen[k][1] = all_lines[i][line_num + 1]
         THEN VariantsAt(all_lines, line_num, i + 1,
                         Append(seen, <<all_lines[i][line_num + 1], i>>))
         ELSE VariantsAt(all_lines, line_num, i + 1, seen)

\* MultiWayStep that resolves a disagreement with the first document's line
MultiWayStepFirstDoc(acc, line_num, all_lines, base_lines, documents, strategy) ==
    With(VariantsAt(all_lines, line_num, 1, <<>>), LAMBDA variants :
      IF Len(variants) = 1 \/ strategy = "MOST_RECENT"
      THEN [acc EXCEPT !.merged_lines = Append(@, variants[1][1]),
                       !.auto_resolved = IF Len(variants) = 1 THEN @ ELSE @ + 1]
      ELSE WithConflict(acc,
             Conflict(acc.conflict_idx, <<"line", line_num + 1>>, "MANUAL",
                      [k \in 1 .. Len(variants) |->
                         Variant(documents[variants[k][2]].name, variants[k][1], 1)],
                      None, None,
                      Some(FixedAnalysis("manual_review_required", None)))))

\* the body of the line loop of _multi_way_merge at line_num
MultiWayStep(acc, line_num, all_lines, base_lines, documents, strategy) ==
    With(VariantsAt(all_lines, line_num, 1, <<>>), LAMBDA variants :
    With(all_lines[Len(all_lines)], LAMBDA last_doc_lines :
      IF Len(variants) = 1
      THEN [acc EXCEPT !.merged_lines = Append(@, variants[1][1])]
      ELSE IF strategy = "MOST_RECENT"
      THEN [acc EXCEPT
              !.merged_lines = Append(@,
                  IF line_num < Len(last_doc_lines) THEN last_doc_lines[line_num + 1]
                  ELSE IF line_num < Len(base_lines) THEN base_lines[line_num + 1]
                  ELSE <<>>),
              !.auto_resolved = @ + 1]
      ELSE WithConflict(acc,
             Conflict(acc.conflict_idx, <<"line", line_num + 1>>, "MANUAL",
                      [k \in 1 .. Len(variants) |->
                         Variant(documents[variants[k][2]].name, variants[k][1], 1)],
                      None, None,
                      Some(FixedAnalysis("manual_review_required", None))))))

RECURSIVE MultiWayLoop(_, _, _, _, _, _, _)
MultiWayLoop(acc, line_num, max_lines, all_lines, base_lines, documents, strategy) ==
    IF line_num >= max_lines THEN acc
    ELSE MultiWayLoop(MultiWayStep(acc, line_num, all_lines, base_lines, documents, strategy),
                      line_num + 1, max_lines, all_lines, base_lines, documents, strategy)

\* a call that raises instead of returning
Raised(kind) == [raised |-> kind]

IsRaised(r) == "raised" \in DOMAIN r

\* _multi_way_merge; base_doc is None or Some(document); max() of no
\* documents raises ValueError
MultiWayMerge(documents, strategy, base_doc) ==
    IF documents = <<>> THEN Raised("ValueError")
    ELSE
    With([i \in 1 .. Len(documents) |-> SplitIntoBlocks(documents[i].content)],
         LAMBDA all_lines :
    With(SetMax({Len(all_lines[i]) : i \in 1 .. Len(all_lines)}), LAMBDA max_lines :
    With(SetMin({i \in 1 .. Len(all_lines) : Len(all_lines[i]) = max_lines}),
         LAMBDA base_idx :
    With(IF base_doc # None THEN SplitIntoBlocks(base_doc[1].content)
         ELSE all_lines[base_idx], LAMBDA base_lines :
    With(MultiWayLoop(Acc(<<>>, <<>>, 0, 0), 0, max_lines, all_lines, base_lines,
                      documents, strategy), LAMBDA acc :
      MergeResult(acc.merged_lines, acc.conflicts, acc.auto_resolved,
         [ total_blocks    |-> max_lines,
           documents_count |-> Len(documents),
           merged          |-> acc.auto_resolved,
           conflicts       |-> Len(acc.conflicts) ]))))))

\* which of the merges MergeEngine.merge dispatches to
MergePath(documents, base_version_id) ==
    LET found == base_version_id # None
                 /\ \E i \in 1 .. Len(documents) : documents[i].id = base_version_id[1]
        rest  == IF found THEN SelectSeq(documents, LAMBDA d : d.id # base_version_id[1])
                 ELSE documents
    IN IF Len(documents) < 2 THEN "trivial"
       ELSE IF Len(rest) = 2 /\ found THEN "three_way"
       ELSE IF Len(rest) = 2 THEN "two_way"
       ELSE "multi_way"

\* TrivialResult that echoes no document
TrivialResultEmpty(documents) ==
    [ merged_content |-> <<>>, conflicts |-> <<>>, auto_resolved |-> 0,
      merge_stats |-> [total_blocks |-> 0, unchanged |-> 0, merged |-> 0] ]

\* what merge returns for fewer than two documents
TrivialResult(documents) ==
    [ merged_content |-> IF documents # <<>> THEN documents[1].content ELSE <<>>,
      conflicts |-> <<>>, auto_resolved |-> 0,
      merge_stats |-> [total_blocks |-> 0, unchanged |-> 0, merged |-> 0] ]

\* MergeEngine.merge; base_version_id is None or Some(id)
Merge(documents, strategy, base_version_id) ==
    LET found    == base_version_id # None
                    /\ \E i \in 1 .. Len(documents) : documents[i].id = base_version_id[1]
        base_doc == IF found
                    THEN Some(documents[SetMin({i \in 1 .. Len(documents) :
                                                  documents[i].id = base_version_id[1]})])
                    ELSE None
        rest     == IF found THEN SelectSeq(documents, LAMBDA d : d.id # base_version_id[1])
                    ELSE documents
    IN IF Len(documents) < 2
       THEN TrivialResult(documents)
       ELSE IF Len(rest) = 2 /\ found THEN ThreeWayMerge(base_doc[1], rest[1], rest[2], strategy)
       ELSE IF Len(rest) = 2 THEN TwoWayMerge(rest[1], rest[2], strategy)
       ELSE MultiWayMerge(rest, strategy, base_doc)

RECURSIVE StrReplaceFrom(_, _, _, _)
\* str.replace(old, new) from position pos on: every occurrence, left to right,
\* not overlapping (old is never empty here)
StrReplaceFrom(s, pos, old, new) ==
    With({p \in pos .. Len(s) - Len(old) + 1 : SubSeq(s, p, p + Len(old) - 1) = old},
         LAMBDA occ :
      IF occ = {} THEN SubSeq(s, pos, Len(s))
      ELSE With(SetMin(occ), LAMBDA p :
             SubSeq(s, pos, p - 1) \o new \o StrReplaceFrom(s, p + Len(old), old, new)))

StrReplace(s, old, new) == StrReplaceFrom(s, 1, old, new)

\* next((c for c in conflicts if c["index"] == conflict_idx), None)
FindConflict(conflicts, conflict_idx) ==
    With({k \in 1 .. Len(conflicts) : conflicts[k].index = conflict_idx}, LAMBDA hits :
      IF hits = {} THEN None ELSE Some(conflicts[SetMin(hits)]))

\* what apply_resolutions does: it returns a str, or raises
Returned(content) == [raised |-> None, content |-> content]

RaisedIn(kind) == [raised |-> Some(kind), content |-> <<>>]

\* ApplyOne that puts the chosen content in front of the placeholder and keeps it
ApplyOneKeepToken(result, conflicts, resolution) ==
    With(FindConflict(conflicts, resolution.conflict_index), LAMBDA conflict :
      IF conflict # None /\ resolution.chosen_variant_index >= 0
         /\ resolution.chosen_variant_index < Len(conflict[1].variants)
      THEN Returned(StrReplace(result, Token(resolution.conflict_index),
               conflict[1].variants[resolution.chosen_variant_index + 1].content
                   \o Token(resolution.conflict_index)))
      ELSE Returned(result))

\* ApplyOne that replaces the placeholder numbered by the chosen variant
ApplyOneSwapped(result, conflicts, resolution) ==
    With(FindConflict(conflicts, resolution.conflict_index), LAMBDA conflict :
      IF conflict # None /\ resolution.chosen_variant_index >= 0
         /\ resolution.chosen_variant_index < Len(conflict[1].variants)
      THEN Returned(StrReplace(result, Token(resolution.chosen_variant_index),
               conflict[1].variants[resolution.chosen_variant_index + 1].content))
      ELSE Returned(result))

\* the body of the loop of apply_resolutions for one resolution: the new
\* result is returned, or the list index is out of range and IndexError raised
ApplyOne(result, conflicts, resolution) ==
    LET conflict_idx   == resolution.conflict_index
        chosen_variant == resolution.chosen_variant_index
    IN
    With(FindConflict(conflicts, conflict_idx), LAMBDA conflict :
      IF conflict # None /\ chosen_variant < Len(conflict[1].variants)
      THEN \* variants[chosen_variant] with Python's negative indices
           With(IF chosen_variant >= 0 THEN chosen_variant + 1
                ELSE Len(conflict[1].variants) + chosen_variant + 1, LAMBDA pos :
             IF pos < 1 THEN RaisedIn("IndexError")
             ELSE With(conflict[1].variants[pos].content, LAMBDA content :
                    Returned(StrReplace(result, Token(conflict_idx),
                                 IF content \in {DeletedMark, AbsentMark}
                                 THEN <<>> ELSE content))))
      ELSE Returned(result))

RECURSIVE ApplyFrom(_, _, _, _)
ApplyFrom(result, conflicts, resolutions, k) ==
    IF k > Len(resolutions) THEN Returned(result)
    ELSE With(ApplyOne(result, conflicts, resolutions[k]), LAMBDA r :
           IF r.raised # None THEN r
           ELSE ApplyFrom(r.content, conflicts, resolutions, k + 1))

\* apply_resolutions: Returned(the new content) or RaisedIn("IndexError")
ApplyResolutions(merged_content, conflicts, resolutions) ==
    ApplyFrom(merged_content, conflicts, resolutions, 1)

(***************************************************************************)
(* The inputs the model draws: documents whose lines come from small sets  *)
(* of lines, none of which contains placeholder text.                      *)
(***************************************************************************)
\* most lines of one document of a two-document merge
MaxLines == 2

\* most documents of one merge call
MaxDocs == 4

\* most lines of all documents together in a merge of three or more documents
MaxTotal == 4

\* "a", "b", "c"
LineA == <<97>>

LineB == <<98>>

LineC == <<99>>

\* "pay in 30 days" and "pay in 45 days": significant, similarity 24/28 > 0.85
LinePay30 == <<112, 97, 121, 32, 105, 110, 32, 51, 48, 32, 100, 97, 121, 115>>

LinePay45 == <<112, 97, 121, 32, 105, 110, 32, 52, 53, 32, 100, 97, 121, 115>>

\* "Оплата в течение 30 дней" and "Оплата в течение 45 дней"
LineOplata30 == <<1054, 1087, 1083, 1072, 1090, 1072, 32, 1074, 32, 1090, 1077, 1095, 1077,
                  1085, 1080, 1077, 32, 51, 48, 32, 1076, 1085, 1077, 1081>>

LineOplata45 == <<1054, 1087, 1083, 1072, 1090, 1072, 32, 1074, 32, 1090, 1077, 1095, 1077,
                  1085, 1080, 1077, 32, 52, 53, 32, 1076, 1085, 1077, 1081>>

TwoWayLines == {LineA, LineB, LinePay30, LinePay45}

SmallLines == {LineA, LineB, LineC}

Strategies == {"MOST_RECENT", "MANUAL", "CONSENSUS"}

DocIds == <<"d1", "d2", "d3", "d4", "d5", "d6">>

DocNames == <<"N1", "N2", "N3", "N4", "N5", "N6">>

\* the i-th document of a request, its text the given lines joined by "\n"
Doc(i, lines) == [id |-> DocIds[i], content |-> Join(NL, lines), name |-> DocNames[i]]

\* the sequences of at most n lines drawn from lines
RECURSIVE LineSeqs(_, _)
LineSeqs(lines, n) ==
    IF n = 0 THEN {<<>>}
    ELSE LET shorter == LineSeqs(lines, n - 1)
         IN shorter \cup {Append(q, l) : q \in {x \in shorter : Len(x) = n - 1}, l \in lines}

\* the sequences of n line sequences with at most total lines altogether
RECURSIVE LineSeqTuples(_, _, _)
LineSeqTuples(lines, n, total) ==
    IF n = 0 THEN {<<>>}
    ELSE UNION { { <<first>> \o rest : rest \in LineSeqTuples(lines, n - 1, total - Len(first)) }
                 : first \in LineSeqs(lines, total) }

DocsOf(tuple) == [i \in 1 .. Len(tuple) |-> Doc(i, tuple[i])]

\* the merge calls of the model that have two documents
TwoDocInputs(docs, s, b) ==
    \E l1 \in LineSeqs(TwoWayLines, MaxLines), l2 \in LineSeqs(TwoWayLines, MaxLines) :
        /\ docs = DocsOf(<<l1, l2>>)
        /\ s \in Strategies
        /\ b \in {None, Some("d1")}

\* the merge calls of the model that have three or more documents
ManyDocInputs(docs, s, b) ==
    \E n \in 3 .. MaxDocs : \E t \in LineSeqTuples(SmallLines, n, MaxTotal) :
        /\ docs = DocsOf(t)
        /\ s \in Strategies
        /\ b \in {None, Some("d1")}

\* scenario A: one line each, the payment term changed from 30 to 45 days
ScenarioAInputs(docs, s, b) ==
    /\ docs = DocsOf(<< <<LineOplata30>>, <<LineOplata45>> >>)
    /\ s \in Strategies
    /\ b = None

\* the merge calls of the model that have no document or one
FewDocInputs(docs, s, b) ==
    /\ \/ docs = <<>>
       \/ \E l1 \in LineSeqs(TwoWayLines, MaxLines) : docs = DocsOf(<<l1>>)
    /\ s \in Strategies
    /\ b \in {None, Some("d1")}

MergeInputs(docs, s, b) ==
    \/ TwoDocInputs(docs, s, b)
    \/ ManyDocInputs(docs, s, b)
    \/ ScenarioAInputs(docs, s, b)
    \/ FewDocInputs(docs, s, b)

(***************************************************************************)
(* DiffEngine (backend/services/diff_engine.py).  Its matchers keep        *)
(* difflib's default autojunk: in a second sequence of 200 elements or     *)
(* more, an element that occurs more than len(b) // 100 + 1 times is       *)
(* popular and starts no match; a match is still extended over popular     *)
(* elements on both sides.                                                 *)
(***************************************************************************)
\* the length of b from which SequenceMatcher looks for popular elements
AutojunkMinLen == 200

\* bpopular of SequenceMatcher.__chain_b
Popular(b) ==
    IF Len(b) < AutojunkMinLen THEN {}
    ELSE With(Len(b) \div 100 + 1, LAMBDA ntest :
           {x \in {b[k] : k \in 1 .. Len(b)} :
               Cardinality({k \in 1 .. Len(b) : b[k] = x}) > ntest})

\* length of the common run of a[i:ahi] and b[j:bhi] over elements that are
\* not in skipped: the first offset where the run ends
AutoRunLen(a, b, skipped, i, j, ahi, bhi) ==
    With(SetMin({ahi - i, bhi - j}), LAMBDA most :
    With({k \in 0 .. most - 1 : a[i + k + 1] # b[j + k + 1] \/ b[j + k + 1] \in skipped},
         LAMBDA ends :
      IF ends = {} THEN most ELSE SetMin(ends)))

\* number of equal elements right before a[i] and b[j] inside the window
BackLen(a, b, i, j, alo, blo) ==
    With(SetMin({i - alo, j - blo}), LAMBDA most :
    With({k \in 1 .. most : a[i - k + 1] # b[j - k + 1]}, LAMBDA ends :
      IF ends = {} THEN most ELSE SetMin(ends) - 1))

\* AutoFindLongestMatch without the extension over the elements around the run
AutoFindLongestMatchBare(a, b, popular, alo, ahi, blo, bhi) ==
    With({p \in (alo .. ahi - 1) \X (blo .. bhi - 1) :
             a[p[1] + 1] = b[p[2] + 1] /\ b[p[2] + 1] \notin popular}, LAMBDA starts :
    With([p \in starts |-> AutoRunLen(a, b, popular, p[1], p[2], ahi, bhi)], LAMBDA runs :
      IF starts = {} THEN <<alo, blo, 0>>
      ELSE With(SetMax({runs[p] : p \in starts}), LAMBDA best :
           With({p \in starts : runs[p] = best}, LAMBDA cand :
           With(SetMin({p[1] : p \in cand}), LAMBDA i :
             <<i, SetMin({p[2] : p \in {q \in cand : q[1] = i}}), best>>)))))

\* find_longest_match with autojunk: the longest run over the elements of b2j
\* (the earliest in a, then in b), extended by the equal elements before it
\* and after it
AutoFindLongestMatch(a, b, popular, alo, ahi, blo, bhi) ==
    With({p \in (alo .. ahi - 1) \X (blo .. bhi - 1) :
             a[p[1] + 1] = b[p[2] + 1] /\ b[p[2] + 1] \notin popular}, LAMBDA starts :
    With([p \in starts |-> AutoRunLen(a, b, popular, p[1], p[2], ahi, bhi)], LAMBDA runs :
    With(IF starts = {} THEN <<alo, blo, 0>>
         ELSE With(SetMax({runs[p] : p \in starts}), LAMBDA best :
              With({p \in starts : runs[p] = best}, LAMBDA cand :
              With(SetMin({p[1] : p \in cand}), LAMBDA i :
                <<i, SetMin({p[2] : p \in {q \in cand : q[1] = i}}), best>>))),
         LAMBDA m :
    With(BackLen(a, b, m[1], m[2], alo, blo), LAMBDA back :
      <<m[1] - back, m[2] - back,
        back + m[3] + AutoRunLen(a, b, {}, m[1] + m[3], m[2] + m[3], ahi, bhi)>>))))

RECURSIVE AutoMatchingBlocksIn(_, _, _, _, _, _, _)
\* the matching blocks of a window, in order
AutoMatchingBlocksIn(a, b, popular, alo, ahi, blo, bhi) ==
    With(AutoFindLongestMatch(a, b, popular, alo, ahi, blo, bhi), LAMBDA m :
      LET i == m[1]
          j == m[2]
          k == m[3]
      IN IF k = 0 THEN <<>>
         ELSE (IF alo < i /\ blo < j
               THEN AutoMatchingBlocksIn(a, b, popular, alo, i, blo, j) ELSE <<>>)
              \o <<m>>
              \o (IF i + k < ahi /\ j + k < bhi
                  THEN AutoMatchingBlocksIn(a, b, popular, i + k, ahi, j + k, bhi)
                  ELSE <<>>))

\* get_matching_blocks() of SequenceMatcher(None, a, b)
AutoGetMatchingBlocks(a, b) ==
    CollapseBlocks(AutoMatchingBlocksIn(a, b, Popular(b), 0, Len(a), 0, Len(b)), <<0, 0, 0>>)
        \o << <<Len(a), Len(b), 0>> >>

\* get_opcodes() of SequenceMatcher(None, a, b)
AutoGetOpcodes(a, b) == OpcodesFrom(AutoGetMatchingBlocks(a, b), 0, 0)

\* ratio() of SequenceMatcher(None, a, b)
AutoRatio(a, b) ==
    IF Len(a) + Len(b) = 0 THEN <<1, 1>>
    ELSE <<2 * SumSizes(AutoGetMatchingBlocks(a, b)), Len(a) + Len(b)>>

\* str.strip()
Strip(text) ==
    With({p \in 1 .. Len(text) : text[p] \notin Whitespace}, LAMBDA solid :
      IF solid = {} THEN <<>> ELSE SubSeq(text, SetMin(solid), SetMax(solid)))

\* the code points the pattern \w matches, of those the texts of the model
\* use: ASCII letters and digits, "_" and the Cyrillic letters
IsWord(c) ==
    \/ IsDigit(c)
    \/ (c >= 65 /\ c <= 90) \/ (c >= 97 /\ c <= 122) \/ c = 95
    \/ (c >= 1024 /\ c <= 1153) \/ (c >= 1162 /\ c <= 1279)

RECURSIVE ClassRun(_, _, _)
\* number of code points of text from pos on that In holds for
ClassRun(In(_), text, pos) ==
    IF pos <= Len(text) /\ In(text[pos]) THEN 1 + ClassRun(In, text, pos + 1) ELSE 0

\* the end (exclusive) of the match of \d+[.,]?\d* that starts at the digit at p
NumberEnd(text, p) ==
    With(p + DigitRun(text, p), LAMBDA p2 :
      IF p2 <= Len(text) /\ text[p2] \in {46, 44}
      THEN p2 + 1 + DigitRun(text, p2 + 1) ELSE p2)

RECURSIVE NumberTokens(_, _)
\* re.findall(r'\d+[.,]?\d*', text) scanning from pos, in order
NumberTokens(text, pos) ==
    With({p \in pos .. Len(text) : IsDigit(text[p])}, LAMBDA starts :
      IF starts = {} THEN <<>>
      ELSE With(SetMin(starts), LAMBDA p :
           With(NumberEnd(text, p), LAMBDA end :
             <<SubSeq(text, p, end - 1)>> \o NumberTokens(text, end))))

RECURSIVE DigitTokens(_, _)
\* re.findall(r'\d+', text) scanning from pos, in order
DigitTokens(text, pos) ==
    With({p \in pos .. Len(text) : IsDigit(text[p])}, LAMBDA starts :
      IF starts = {} THEN <<>>
      ELSE With(SetMin(starts), LAMBDA p :
           With(p + DigitRun(text, p), LAMBDA end :
             <<SubSeq(text, p, end - 1)>> \o DigitTokens(text, end))))

RECURSIVE Tokenize(_)
\* _tokenize: re.findall(r'\d+[.,]?\d*|\w+|[^\w\s]+|\s+', text); every code
\* point is in exactly one of \w, \s and the rest, so the tokens cover the text
Tokenize(text) ==
    IF text = <<>> THEN <<>>
    ELSE With(IF IsDigit(text[1]) THEN NumberEnd(text, 1) - 1
              ELSE IF IsWord(text[1]) THEN ClassRun(IsWord, text, 1)
              ELSE IF text[1] \in Whitespace
                   THEN ClassRun(LAMBDA c : c \in Whitespace, text, 1)
              ELSE ClassRun(LAMBDA c : ~ IsWord(c) /\ c \notin Whitespace, text, 1),
              LAMBDA k :
           <<SubSeq(text, 1, k)>> \o Tokenize(SubSeq(text, k + 1, Len(text))))

\* "&amp;"
EscAmp == <<38, 97, 109, 112, 59>>

\* "&lt;"
EscLt == <<38, 108, 116, 59>>

\* "&gt;"
EscGt == <<38, 103, 116, 59>>

\* "&quot;"
EscQuot == <<38, 113, 117, 111, 116, 59>>

\* _escape: "&" is replaced first, so the "&" of the other entities stays
Escape(text) ==
    Concat([k \in 1 .. Len(text) |->
               IF text[k] = 38 THEN EscAmp
               ELSE IF text[k] = 60 THEN EscLt
               ELSE IF text[k] = 62 THEN EscGt
               ELSE IF text[k] = 34 THEN EscQuot
               ELSE <<text[k]>>])

\* any(kw in text for kw in keywords)
AnyKeyword(text, keywords) == \E kw \in keywords : Contains(text, kw)

\* critical_kw: "ответственност", "штраф", "неустойк", "расторж"
CriticalKw == {
    <<1086, 1090, 1074, 1077, 1090, 1089, 1090, 1074, 1077, 1085, 1085, 1086, 1089, 1090>>,
    <<1096, 1090, 1088, 1072, 1092>>,
    <<1085, 1077, 1091, 1089, 1090, 1086, 1081, 1082>>,
    <<1088, 1072, 1089, 1090, 1086, 1088, 1078>> }

\* major_kw: "сумм", "рубл", "платеж", "срок"
MajorKw == {
    <<1089, 1091, 1084, 1084>>,
    <<1088, 1091, 1073, 1083>>,
    <<1087, 1083, 1072, 1090, 1077, 1078>>,
    <<1089, 1088, 1086, 1082>> }

\* "сумм", "рубл", "платеж", "цен"
FinancialKw == {
    <<1089, 1091, 1084, 1084>>,
    <<1088, 1091, 1073, 1083>>,
    <<1087, 1083, 1072, 1090, 1077, 1078>>,
    <<1094, 1077, 1085>> }

\* "срок", "дат", "период"
TemporalKw == {
    <<1089, 1088, 1086, 1082>>,
    <<1076, 1072, 1090>>,
    <<1087, 1077, 1088, 1080, 1086, 1076>> }

\* "ответственност", "штраф", "обязательств"
LegalKw == {
    <<1086, 1090, 1074, 1077, 1090, 1089, 1090, 1074, 1077, 1085, 1085, 1086, 1089, 1090>>,
    <<1096, 1090, 1088, 1072, 1092>>,
    <<1086, 1073, 1103, 1079, 1072, 1090, 1077, 1083, 1100, 1089, 1090, 1074>> }

\* "критич"
Kritich == <<1082, 1088, 1080, 1090, 1080, 1095>>

\* " → "
Arrow == <<32, 8594, 32>>

\* "Изменено: "
ChangedPrefix == <<1048, 1079, 1084, 1077, 1085, 1077, 1085, 1086, 58, 32>>

\* "Удалено: "
DeletedPrefix == <<1059, 1076, 1072, 1083, 1077, 1085, 1086, 58, 32>>

\* "Добавлено: "
AddedPrefix == <<1044, 1086, 1073, 1072, 1074, 1083, 1077, 1085, 1086, 58, 32>>

\* "..."
Ellipsis == <<46, 46, 46>>

\* "Изменён текст"
TextChanged == <<1048, 1079, 1084, 1077, 1085, 1105, 1085, 32, 1090, 1077, 1082, 1089, 1090>>

\* "Числовое значение изменилось: "
ShiftPrefix == 
    <<1063, 1080, 1089, 1083, 1086, 1074, 1086, 1077, 32, 1079, 1085, 1072, 1095, 1077,
      1085, 1080, 1077, 32, 1080, 1079, 1084, 1077, 1085, 1080, 1083, 1086, 1089, 1100,
      58, 32>>

\* "строка "
LinePrefix == <<1089, 1090, 1088, 1086, 1082, 1072, 32>>

\* '<mark class="diff-del">'
MarkDel == 
    <<60, 109, 97, 114, 107, 32, 99, 108, 97, 115, 115, 61, 34, 100, 105, 102, 102, 45,
      100, 101, 108, 34, 62>>

\* '<mark class="diff-add">'
MarkAdd == 
    <<60, 109, 97, 114, 107, 32, 99, 108, 97, 115, 115, 61, 34, 100, 105, 102, 102, 45,
      97, 100, 100, 34, 62>>

\* "</mark>"
MarkEnd == <<60, 47, 109, 97, 114, 107, 62>>

\* "💰 Изменение финансовых условий"
SummaryFinancial == 
    <<128176, 32, 1048, 1079, 1084, 1077, 1085, 1077, 1085, 1080, 1077, 32, 1092, 1080,
      1085, 1072, 1085, 1089, 1086, 1074, 1099, 1093, 32, 1091, 1089, 1083, 1086, 1074,
      1080, 1081>>

\* "📅 Изменение сроков или дат"
SummaryTemporal == 
    <<128197, 32, 1048, 1079, 1084, 1077, 1085, 1077, 1085, 1080, 1077, 32, 1089, 1088,
      1086, 1082, 1086, 1074, 32, 1080, 1083, 1080, 32, 1076, 1072, 1090>>

\* "⚖️ Изменение правовых условий"
SummaryLegal == 
    <<9878, 65039, 32, 1048, 1079, 1084, 1077, 1085, 1077, 1085, 1080, 1077, 32, 1087,
      1088, 1072, 1074, 1086, 1074, 1099, 1093, 32, 1091, 1089, 1083, 1086, 1074, 1080,
      1081>>

\* "📝 Изменение текста"
SummaryGeneral == 
    <<128221, 32, 1048, 1079, 1084, 1077, 1085, 1077, 1085, 1080, 1077, 32, 1090, 1077,
      1082, 1089, 1090, 1072>>

\* "Построчный"
LineModeName == <<1055, 1086, 1089, 1090, 1088, 1086, 1095, 1085, 1099, 1081>>

\* "Классический diff — сравнение строка за строкой"
LineModeDescription == 
    <<1050, 1083, 1072, 1089, 1089, 1080, 1095, 1077, 1089, 1082, 1080, 1081, 32, 100,
      105, 102, 102, 32, 8212, 32, 1089, 1088, 1072, 1074, 1085, 1077, 1085, 1080, 1077,
      32, 1089, 1090, 1088, 1086, 1082, 1072, 32, 1079, 1072, 32, 1089, 1090, 1088, 1086,
      1082, 1086, 1081>>

\* "Семантический"
SemanticModeName == <<1057, 1077, 1084, 1072, 1085, 1090, 1080, 1095, 1077, 1089, 1082, 1080, 1081>>

\* "Анализ смысловых изменений — выявляет изменения значения"
SemanticModeDescription == 
    <<1040, 1085, 1072, 1083, 1080, 1079, 32, 1089, 1084, 1099, 1089, 1083, 1086, 1074,
      1099, 1093, 32, 1080, 1079, 1084, 1077, 1085, 1077, 1085, 1080, 1081, 32, 8212, 32,
      1074, 1099, 1103, 1074, 1083, 1103, 1077, 1090, 32, 1080, 1079, 1084, 1077, 1085,
      1077, 1085, 1080, 1103, 32, 1079, 1085, 1072, 1095, 1077, 1085, 1080, 1103>>

RECURSIVE IntOf(_)
\* int(digits)
IntOf(digits) ==
    IF digits = <<>> THEN 0
    ELSE 10 * IntOf(SubSeq(digits, 1, Len(digits) - 1)) + (digits[Len(digits)] - 48)

RECURSIVE Pow10(_)
Pow10(n) == IF n = 0 THEN 1 ELSE 10 * Pow10(n - 1)

RECURSIVE Normal(_)
\* the decimal <<m, f>> is m / 10^f; the normal form has no trailing zero
\* after the point
Normal(x) == IF x[2] > 0 /\ x[1] % 10 = 0 THEN Normal(<<x[1] \div 10, x[2] - 1>>) ELSE x

\* float(n.replace(',', '.')) for a match n of \d+[.,]?\d*, as a decimal: the
\* float and the decimal name the same number for up to 15 digits
ParseFloat(n) ==
    With(DigitRun(n, 1), LAMBDA whole :
      Normal(<<IntOf(SelectSeq(n, IsDigit)),
               IF Len(n) > whole THEN Len(n) - whole - 1 ELSE 0>>))

\* [float(n.replace(',', '.')) for n in re.findall(r'\d+[.,]?\d*', text) if n]
FloatsOf(text) ==
    With(NumberTokens(text, 1), LAMBDA found :
      [k \in 1 .. Len(found) |-> ParseFloat(found[k])])

\* str(x) for a float x from 0.0001 to below 10^16: the digits before the
\* point, ".", and the digits after it ("0" if there are none)
FloatRepr(x) ==
    IF x[2] = 0 THEN DigitsOf(x[1]) \o <<46, 48>>
    ELSE With(DigitsOf(x[1] % Pow10(x[2])), LAMBDA frac :
           DigitsOf(x[1] \div Pow10(x[2])) \o <<46>>
               \o [k \in 1 .. x[2] - Len(frac) |-> 48] \o frac)

\* abs(new - old) / max(old, 1) > 0.1 on floats; with whole numbers below
\* 10^15 the quotient is above the float 0.1 exactly when 10 * |new - old|
\* is above max(old, 1); both numbers are scaled by 10^f to whole numbers
ChangedByMoreThanTenth(old, new) ==
    With(SetMax({old[2], new[2]}), LAMBDA f :
    With(old[1] * Pow10(f - old[2]), LAMBDA o :
    With(new[1] * Pow10(f - new[2]), LAMBDA n :
      (IF n > o THEN n - o ELSE o - n) > SetMax({o, Pow10(f)}) \div 10)))

\* _classify_change
ClassifyChange(old, new) ==
    IF NumberTokens(old, 1) # NumberTokens(new, 1) THEN "NUMERICAL_CHANGE"
    ELSE IF \E p \in 1 .. Len(old \o new) : DateMatchLen(old \o new, p) > 0
         THEN "TEMPORAL_CHANGE"
    ELSE "TEXT_CHANGE"

\* _classify_semantic_change
ClassifySemanticChange(old, new) ==
    With(Lower(old \o new), LAMBDA combined :
      IF AnyKeyword(combined, FinancialKw) THEN "FINANCIAL"
      ELSE IF AnyKeyword(combined, TemporalKw) THEN "TEMPORAL"
      ELSE IF AnyKeyword(combined, LegalKw) THEN "LEGAL"
      ELSE "GENERAL")

\* _detect_meaning_shift: None or Some(the message)
DetectMeaningShift(old, new) ==
    With(FloatsOf(old), LAMBDA old_nums :
    With(FloatsOf(new), LAMBDA new_nums :
      IF old_nums # <<>> /\ new_nums # <<>> /\ old_nums # new_nums
         /\ new_nums[1] # old_nums[1]
      THEN Some(ShiftPrefix \o FloatRepr(old_nums[1]) \o Arrow \o FloatRepr(new_nums[1]))
      ELSE None))

\* _calculate_severity
CalculateSeverity(old, new) ==
    With(Lower(old \o new), LAMBDA combined :
    With(FloatsOf(old), LAMBDA old_nums :
    With(FloatsOf(new), LAMBDA new_nums :
      IF old_nums # <<>> /\ new_nums # <<>> /\ old_nums # new_nums
      THEN (IF ChangedByMoreThanTenth(old_nums[1], new_nums[1]) THEN "CRITICAL" ELSE "MAJOR")
      ELSE IF AnyKeyword(combined, CriticalKw) THEN "CRITICAL"
      ELSE IF AnyKeyword(combined, MajorKw) THEN "MAJOR"
      ELSE "MINOR")))

\* the length from which _calculate_impact leaves a number out of the maximum
ImpactDigits == 10

\* _calculate_impact: [value |-> the score], or Raised("ValueError") when max()
\* gets no number, every number of the pair having 10 digits or more
CalculateImpact(old, new) ==
    With(DigitTokens(old \o new, 1), LAMBDA numbers :
    With({k \in 1 .. Len(numbers) : Len(numbers[k]) < ImpactDigits}, LAMBDA short :
      IF numbers = <<>> THEN [value |-> SetMin({100, 20})]
      ELSE IF short = {} THEN Raised("ValueError")
      ELSE With(SetMax({IntOf(numbers[k]) : k \in short}), LAMBDA max_num :
             [value |-> SetMin({100, 20 + (IF max_num > 10000 THEN 40
                                           ELSE IF max_num > 1000 THEN 25
                                           ELSE 0)})])))

\* _generate_summary; old and new are None or Some(text)
GenerateSummary(old, new, classification) ==
    With(NumberTokens(Concat(old), 1), LAMBDA old_nums :
    With(NumberTokens(Concat(new), 1), LAMBDA new_nums :
      IF classification = "NUMERICAL_CHANGE" /\ old_nums # <<>> /\ new_nums # <<>>
      THEN ChangedPrefix \o old_nums[1] \o Arrow \o new_nums[1]
      ELSE IF Concat(old) # <<>> /\ Concat(new) = <<>>
      THEN DeletedPrefix \o Slice(old[1], 0, SetMin({50, Len(old[1])})) \o Ellipsis
      ELSE IF Concat(new) # <<>> /\ Concat(old) = <<>>
      THEN AddedPrefix \o Slice(new[1], 0, SetMin({50, Len(new[1])})) \o Ellipsis
      ELSE TextChanged))

\* _generate_semantic_summary
GenerateSemanticSummary(semantic_type) ==
    IF semantic_type = "FINANCIAL" THEN SummaryFinancial
    ELSE IF semantic_type = "TEMPORAL" THEN SummaryTemporal
    ELSE IF semantic_type = "LEGAL" THEN SummaryLegal
    ELSE SummaryGeneral

(***************************************************************************)
(* The scores of _find_line_matches are Python floats (IEEE 754 doubles,   *)
(* rounded to nearest, ties to even).  Every score of the dynamic program  *)
(* is a non-negative multiple of 2^-59, the unit of the float 0.01, so a   *)
(* score is kept as the number of units, in three limbs <<hi, mid, lo>>    *)
(* to base 2^20: hi * 2^40 + mid * 2^20 + lo.                              *)
(***************************************************************************)
\* 2^20
LimbBase == 1048576

RECURSIVE Pow2(_)
Pow2(n) == IF n = 0 THEN 1 ELSE 2 * Pow2(n - 1)

RECURSIVE BitLen(_)
\* int.bit_length()
BitLen(n) == IF n = 0 THEN 0 ELSE 1 + BitLen(n \div 2)

\* the limbs of hi * 2^40 + mid * 2^20 + lo, carries moved up
Limbs(hi, mid, lo) ==
    <<hi + (mid + lo \div LimbBase) \div LimbBase,
      (mid + lo \div LimbBase) % LimbBase,
      lo % LimbBase>>

\* 0.0
FloatZero == <<0, 0, 0>>

\* 2.0
FloatTwo == <<1048576, 0, 0>>

\* 1.5
FloatOneAndHalf == <<786432, 0, 0>>

\* 0.01, the double 5764607523034235 * 2^-59
FloatPenalty == <<5242, 922746, 922747>>

\* x > y
FloatGreater(x, y) ==
    \/ x[1] > y[1]
    \/ x[1] = y[1] /\ x[2] > y[2]
    \/ x[1] = y[1] /\ x[2] = y[2] /\ x[3] > y[3]

\* the double nearest to a number of units: a number of more than 53 bits
\* loses its low bits, rounded to nearest, ties to even
RoundToDouble(x) ==
    IF x[1] < 8192 THEN x
    ELSE Strict(Pow2(BitLen(x[1] \div 8192)), LAMBDA unit :
         Strict(x[3] % unit, LAMBDA rest :
           Limbs(x[1], x[2],
                 x[3] - rest
                 + (IF 2 * rest > unit \/ (2 * rest = unit /\ (x[3] \div unit) % 2 = 1)
                    THEN unit ELSE 0))))

\* x + y
FloatAdd(x, y) == RoundToDouble(Limbs(x[1] + y[1], x[2] + y[2], x[3] + y[3]))

\* x - y for x > y
FloatSub(x, y) ==
    With(IF x[3] < y[3] THEN 1 ELSE 0, LAMBDA b1 :
    With(IF x[2] - b1 < y[2] THEN 1 ELSE 0, LAMBDA b2 :
      RoundToDouble(<<x[1] - y[1] - b2,
                      x[2] - b1 - y[2] + b2 * LimbBase,
                      x[3] - y[3] + b1 * LimbBase>>)))

\* 2.0 * matches / length of ratio(), for a ratio r = <<2 * matches, length>>
\* from 0.5 to below 1 and a length below 2048: the quotient of r[1] * 2^53
\* by r[2], rounded to nearest, ties to even, in units of 2^-53
FloatOfRatio(r) ==
    With((r[1] * 8192) \div r[2], LAMBDA hi :
    With((((r[1] * 8192) % r[2]) * LimbBase) \div r[2], LAMBDA mid :
    With((((r[1] * 8192) % r[2]) * LimbBase) % r[2], LAMBDA rem2 :
    With((rem2 * LimbBase) \div r[2], LAMBDA lo :
    With((rem2 * LimbBase) % r[2], LAMBDA rest :
    With(IF 2 * rest > r[2] \/ (2 * rest = r[2] /\ lo % 2 = 1) THEN lo + 1 ELSE lo,
         LAMBDA rounded :
      Limbs(hi * 64, mid * 64, rounded * 64)))))))

\* sim >= THRESHOLD for the ratio sim: the floats compare as the numbers do
AtLeastThreshold(sim) == sim[1] * 10 >= 7 * sim[2]

\* sim_matrix[i][j] of _find_line_matches: 2.0 for identical lines, the ratio
\* of two non-blank lines if it is at least 0.7, 1.5 for two blank lines, else 0
SimOf(line1, line2) ==
    IF line1 = line2 THEN FloatTwo
    ELSE IF Strip(line1) # <<>> /\ Strip(line2) # <<>>
    THEN With(AutoRatio(line1, line2), LAMBDA sim :
           IF AtLeastThreshold(sim) THEN FloatOfRatio(sim) ELSE FloatZero)
    ELSE IF Strip(line1) = <<>> /\ Strip(line2) = <<>> THEN FloatOneAndHalf
    ELSE FloatZero

SimMatrix(lines1, lines2) ==
    [i \in 1 .. Len(lines1) |-> [j \in 1 .. Len(lines2) |-> SimOf(lines1[i], lines2[j])]]

\* the cell dp[i][j] with its parent, from dp[i-1][j], dp[i][j-1], dp[i-1][j-1]
\* and sim_matrix[i-1][j-1]: the cell starts at 0.0 without a parent and each
\* option replaces it only by a greater score; a skip from a score of at most
\* 0.01 is not above 0.0
DpCell(up, left, diag, sim) ==
    Strict(IF FloatGreater(up, FloatPenalty)
           THEN [score |-> FloatSub(up, FloatPenalty), parent |-> "skip1"]
           ELSE [score |-> FloatZero, parent |-> "none"], LAMBDA c1 :
    Strict(IF FloatGreater(left, FloatPenalty)
           THEN Strict(FloatSub(left, FloatPenalty), LAMBDA skip2_score :
                  IF FloatGreater(skip2_score, c1.score)
                  THEN [score |-> skip2_score, parent |-> "skip2"]
                  ELSE c1)
           ELSE c1, LAMBDA c2 :
      IF FloatGreater(sim, FloatZero)
      THEN Strict(FloatAdd(diag, sim), LAMBDA score :
             IF FloatGreater(score, c2.score)
             THEN [score |-> score, parent |-> "match"]
             ELSE c2)
      ELSE c2))

\* dp[i][0] and dp[0][j]: 0.0 without a parent
DpBorder == [score |-> FloatZero, parent |-> "none"]

RECURSIVE DpCells(_, _, _, _, _)
\* the cells dp[i][lo] .. dp[i][hi] of a row, left to right, from the row
\* above (above[j + 1] is dp[i-1][j]) and from left, the cell dp[i][lo-1];
\* the columns are halved so that a long row nests few calls
DpCells(above, sims, left, lo, hi) ==
    IF lo > hi THEN <<>>
    ELSE IF lo = hi
    THEN <<DpCell(above[lo + 1].score, left.score, above[lo].score, sims[lo])>>
    ELSE Strict(DpCells(above, sims, left, lo, (lo + hi) \div 2), LAMBDA first :
           first \o DpCells(above, sims, first[Len(first)], (lo + hi) \div 2 + 1, hi))

\* row i of dp from the row above it: row[j + 1] is dp[i][j]
DpRow(above, sims) == <<DpBorder>> \o DpCells(above, sims, DpBorder, 1, Len(above) - 1)

RECURSIVE DpRows(_, _, _, _)
\* the rows lo .. hi of dp, top down, from the row above row lo
DpRows(sim_matrix, above, lo, hi) ==
    IF lo = hi THEN <<DpRow(above, sim_matrix[lo])>>
    ELSE Strict(DpRows(sim_matrix, above, lo, (lo + hi) \div 2), LAMBDA first :
           first \o DpRows(sim_matrix, first[Len(first)], (lo + hi) \div 2 + 1, hi))

\* dp and parent after the fill loop: table[i + 1][j + 1] is the cell (i, j)
DpTable(lines1, lines2) ==
    Strict([j \in 1 .. Len(lines2) + 1 |-> DpBorder], LAMBDA top :
      <<top>> \o DpRows(SimMatrix(lines1, lines2), top, 1, Len(lines1)))

\* a backtrack round that stays in column j after a match
BacktrackStepStay(dp, pos) ==
    IF pos[1] = 0 \/ pos[2] = 0 THEN [pos |-> pos, matches |-> <<>>]
    ELSE Strict(dp[pos[1] + 1][pos[2] + 1].parent, LAMBDA action :
           IF action = "none" THEN [pos |-> pos, matches |-> <<>>]
           ELSE IF action = "skip1" THEN [pos |-> <<pos[1] - 1, pos[2]>>, matches |-> <<>>]
           ELSE IF action = "skip2" THEN [pos |-> <<pos[1], pos[2] - 1>>, matches |-> <<>>]
           ELSE [pos     |-> <<pos[1] - 1, pos[2]>>,
                 matches |-> << <<pos[1] - 1, pos[2] - 1>> >>])

\* one round of the backtrack loop at pos = <<i, j>>: where it goes and the
\* match it appends; the loop has ended where i = 0, j = 0 or no parent is set
BacktrackStep(dp, pos) ==
    IF pos[1] = 0 \/ pos[2] = 0 THEN [pos |-> pos, matches |-> <<>>]
    ELSE Strict(dp[pos[1] + 1][pos[2] + 1].parent, LAMBDA action :
           IF action = "none" THEN [pos |-> pos, matches |-> <<>>]
           ELSE IF action = "skip1" THEN [pos |-> <<pos[1] - 1, pos[2]>>, matches |-> <<>>]
           ELSE IF action = "skip2" THEN [pos |-> <<pos[1], pos[2] - 1>>, matches |-> <<>>]
           ELSE [pos     |-> <<pos[1] - 1, pos[2] - 1>>,
                 matches |-> << <<pos[1] - 1, pos[2] - 1>> >>])

RECURSIVE Backtrack(_, _, _)
\* up to `rounds` rounds of the backtrack loop from pos: where they end and
\* the matches they append, reversed (the last appended first)
Backtrack(dp, pos, rounds) ==
    IF rounds = 1 THEN BacktrackStep(dp, pos)
    ELSE Strict(Backtrack(dp, pos, rounds \div 2), LAMBDA first :
         Strict(Backtrack(dp, first.pos, rounds - rounds \div 2), LAMBDA rest :
           [pos |-> rest.pos, matches |-> rest.matches \o first.matches]))

\* _find_line_matches: the list of matched (idx1, idx2), 0-based; the loop
\* makes at most n1 + n2 rounds
FindLineMatches(lines1, lines2) ==
    IF lines1 = <<>> \/ lines2 = <<>> THEN <<>>
    ELSE Backtrack(DpTable(lines1, lines2), <<Len(lines1), Len(lines2)>>,
                   Len(lines1) + Len(lines2)).matches

RECURSIVE FlattenIn(_, _, _)
\* the concatenation of ss[lo], .., ss[hi], the range halved so that a long
\* list nests few calls
FlattenIn(ss, lo, hi) ==
    IF lo > hi THEN <<>>
    ELSE IF lo = hi THEN ss[lo]
    ELSE FlattenIn(ss, lo, (lo + hi) \div 2) \o FlattenIn(ss, (lo + hi) \div 2 + 1, hi)

\* the concatenation of a list of lists
Flatten(ss) == FlattenIn(ss, 1, Len(ss))

\* the piece one opcode adds to left_html and to right_html
InlinePiece(op, old_words, new_words) ==
    With(Escape(Concat(Slice(old_words, op[2], op[3]))), LAMBDA old_part :
    With(Escape(Concat(Slice(new_words, op[4], op[5]))), LAMBDA new_part :
      IF op[1] = "equal" THEN [left |-> old_part, right |-> new_part]
      ELSE IF op[1] = "replace"
      THEN [left  |-> MarkDel \o old_part \o MarkEnd,
            right |-> MarkAdd \o new_part \o MarkEnd]
      ELSE IF op[1] = "delete" THEN [left |-> MarkDel \o old_part \o MarkEnd, right |-> <<>>]
      ELSE [left |-> <<>>, right |-> MarkAdd \o new_part \o MarkEnd]))

\* _compute_inline_diff
ComputeInlineDiff(old_line, new_line) ==
    With(Tokenize(old_line), LAMBDA old_words :
    With(Tokenize(new_line), LAMBDA new_words :
    With(AutoGetOpcodes(old_words, new_words), LAMBDA opcodes :
    With([k \in 1 .. Len(opcodes) |-> InlinePiece(opcodes[k], old_words, new_words)],
         LAMBDA pieces :
      [ left_html  |-> Flatten([k \in 1 .. Len(pieces) |-> pieces[k].left]),
        right_html |-> Flatten([k \in 1 .. Len(pieces) |-> pieces[k].right]) ]))))

\* "change_"
ChangePrefix == <<99, 104, 97, 110, 103, 101, 95>>

\* f"строка {n}"
Location(n) == LinePrefix \o IntToStr(n)

\* the arguments of one _make_change call; old_text, new_text and inline_diff
\* are None or Some(value)
ChangeArgs(change_type, old_text, new_text, location, inline_diff) ==
    [ type |-> change_type, old_text |-> old_text, new_text |-> new_text,
      location |-> location, inline_diff |-> inline_diff ]

\* _make_change; hex8 is uuid.uuid4().hex[:8].  The keys a change lacks are
\* None.  _calculate_impact may raise, and then so does _make_change
MakeChange(args, hex8) ==
    With(Concat(args.old_text), LAMBDA old :
    With(Concat(args.new_text), LAMBDA new :
    With(CalculateImpact(old, new), LAMBDA impact :
      IF IsRaised(impact) THEN impact
      ELSE With(ClassifyChange(old, new), LAMBDA classification :
           [ id             |-> ChangePrefix \o hex8,
             type           |-> args.type,
             classification |-> classification,
             severity       |-> CalculateSeverity(old, new),
             location       |-> args.location,
             original_text  |-> args.old_text,
             new_text       |-> args.new_text,
             ai_summary     |-> GenerateSummary(args.old_text, args.new_text, classification),
             impact_score   |-> impact.value,
             original_html  |-> IF args.inline_diff = None THEN None
                                ELSE Some(args.inline_diff[1].left_html),
             new_html       |-> IF args.inline_diff = None THEN None
                                ELSE Some(args.inline_diff[1].right_html),
             semantic_type  |-> None,
             meaning_shift  |-> None ]))))

\* a row of the side-by-side columns; num is <<n>> for the int n and <<>> for ""
Row(num, type, text, html) == [num |-> num, type |-> type, text |-> text, html |-> html]

EmptyRow == Row(<<>>, "empty", <<>>, <<>>)

\* the rows of one run of the loop "while i < upto" over unmatched lines of
\* lines1: a deleted line on the left, an empty row on the right
DeletedRun(lines1, i, upto, left_num) ==
    [ left  |-> [k \in 1 .. upto - i |->
                    Row(<<left_num + k - 1>>, "deleted", lines1[i + k],
                        MarkDel \o Escape(lines1[i + k]) \o MarkEnd)],
      right |-> [k \in 1 .. upto - i |-> EmptyRow] ]

\* the rows of one run of the loop "while j < upto" over unmatched lines of
\* lines2: an empty row on the left, an added line on the right
AddedRun(lines2, j, upto, right_num) ==
    [ left  |-> [k \in 1 .. upto - j |-> EmptyRow],
      right |-> [k \in 1 .. upto - j |->
                    Row(<<right_num + k - 1>>, "added", lines2[j + k],
                        MarkAdd \o Escape(lines2[j + k]) \o MarkEnd)] ]

\* the rows of a matched pair, with the numbers left_num and right_num:
\* unchanged rows for identical lines if show_full, no row for them if not,
\* modified rows with the inline diff for similar lines
MatchedRows(line1, line2, left_num, right_num, show_full) ==
    IF line1 = line2
    THEN (IF show_full
          THEN [ left  |-> <<Row(<<left_num>>, "unchanged", line1, Escape(line1))>>,
                 right |-> <<Row(<<right_num>>, "unchanged", line2, Escape(line2))>> ]
          ELSE [left |-> <<>>, right |-> <<>>])
    ELSE With(ComputeInlineDiff(line1, line2), LAMBDA inline :
           [ left  |-> <<Row(<<left_num>>, "modified", line1, inline.left_html)>>,
             right |-> <<Row(<<right_num>>, "modified", line2, inline.right_html)>> ])

\* one round of the loop over matches, from the state st = [i, j, left_num,
\* right_num, left, right] of _build_side_by_side
SideMatch(st, match, lines1, lines2, show_full) ==
    Strict(DeletedRun(lines1, st.i, match[1], st.left_num), LAMBDA deleted :
    Strict(AddedRun(lines2, st.j, match[2], st.right_num), LAMBDA added :
    Strict(MatchedRows(lines1[match[1] + 1], lines2[match[2] + 1],
                       st.left_num + Len(deleted.left),
                       st.right_num + Len(added.right), show_full), LAMBDA matched :
      [ i         |-> match[1] + 1,
        j         |-> match[2] + 1,
        left_num  |-> st.left_num + Len(deleted.left) + Len(matched.left),
        right_num |-> st.right_num + Len(added.right) + Len(matched.right),
        left      |-> st.left \o deleted.left \o added.left \o matched.left,
        right     |-> st.right \o deleted.right \o added.right \o matched.right ])))

RECURSIVE SideLoop(_, _, _, _, _, _, _)
\* the rounds lo .. hi of the loop over matches, from the state st
SideLoop(st, matched, lo, hi, lines1, lines2, show_full) ==
    IF lo > hi THEN st
    ELSE IF lo = hi THEN SideMatch(st, matched[lo], lines1, lines2, show_full)
    ELSE Strict(SideLoop(st, matched, lo, (lo + hi) \div 2, lines1, lines2, show_full),
                LAMBDA half :
           SideLoop(half, matched, (lo + hi) \div 2 + 1, hi, lines1, lines2, show_full))

\* _build_side_by_side; show_full is self.show_full, which compare has set
\* from its argument
BuildSideBySide(lines1, lines2, show_full) ==
    Strict(FindLineMatches(lines1, lines2), LAMBDA matched :
    Strict(SideLoop([i |-> 0, j |-> 0, left_num |-> 1, right_num |-> 1,
                     left |-> <<>>, right |-> <<>>],
                    matched, 1, Len(matched), lines1, lines2, show_full), LAMBDA st :
    Strict(DeletedRun(lines1, st.i, Len(lines1), st.left_num), LAMBDA deleted :
    Strict(AddedRun(lines2, st.j, Len(lines2), st.right_num), LAMBDA added :
      [ left  |-> st.left \o deleted.left \o added.left,
        right |-> st.right \o deleted.right \o added.right ]))))

\* round(similarity, 3) in thousandths, ties to even (exact for texts whose
\* lengths add up to less than 80, and for a similarity of 1.0)
Round3(sim) ==
    LET q == (sim[1] * 1000) \div sim[2]
        r == (sim[1] * 1000) % sim[2]
    IN IF 2 * r > sim[2] \/ (2 * r = sim[2] /\ q % 2 = 1) THEN <<q + 1, 1000>> ELSE <<q, 1000>>

\* sum(1 for c in changes if c.get("severity") == severity)
CountSeverity(changes, severity) ==
    Cardinality({k \in 1 .. Len(changes) : changes[k].severity = severity})

\* _build_result, with the keys the two modes add to it
BuildResult(changes, text1, text2, diff_lines, mode_info) ==
    [ summary          |-> [ total_changes    |-> Len(changes),
                             critical_changes |-> CountSeverity(changes, "CRITICAL"),
                             major_changes    |-> CountSeverity(changes, "MAJOR"),
                             minor_changes    |-> CountSeverity(changes, "MINOR"),
                             similarity_score |-> Round3(AutoRatio(text1, text2)) ],
      changes          |-> changes,
      financial_impact |-> <<>>,
      diff_lines       |-> diff_lines,
      mode_info        |-> mode_info ]

\* the positions where a line break ends: those of the line break characters
\* but for the "\r" of a "\r\n"
BreakEnds(text) ==
    {p \in 1 .. Len(text) :
        /\ text[p] \in LineBreaks
        /\ ~ (text[p] = 13 /\ p < Len(text) /\ text[p + 1] = 10)}

\* where the line break that ends at p starts
BreakStart(text, p) == IF text[p] = 10 /\ p > 1 /\ text[p - 1] = 13 THEN p - 1 ELSE p

RECURSIVE SplitLinesIn(_, _, _, _)
\* the lines of text[lo .. hi], where lo starts a line and hi ends the text or
\* a line break; the window is cut at the break nearest to its middle, so
\* that a long text nests few calls
SplitLinesIn(text, ends, lo, hi) ==
    IF lo > hi THEN <<>>
    ELSE With({p \in ends : p >= lo /\ p < hi}, LAMBDA inner :
           IF inner = {}
           THEN <<SubSeq(text, lo, IF hi \in ends THEN BreakStart(text, hi) - 1 ELSE hi)>>
           ELSE With(IF \E p \in inner : 2 * p >= lo + hi
                     THEN SetMin({p \in inner : 2 * p >= lo + hi})
                     ELSE SetMax(inner), LAMBDA cut :
                  SplitLinesIn(text, ends, lo, cut) \o SplitLinesIn(text, ends, cut + 1, hi)))

\* str.splitlines()
SplitLines(text) == SplitLinesIn(text, BreakEnds(text), 1, Len(text))

\* the _make_change calls of _line_by_line_diff for one opcode, in order
LineChangesOf(op, lines1, lines2) ==
    IF op[1] = "replace"
    THEN Flatten([k \in 1 .. SetMax({op[3] - op[2], op[5] - op[4]}) |->
           With(IF op[2] + k - 1 < op[3] THEN lines1[op[2] + k] ELSE <<>>, LAMBDA old_line :
           With(IF op[4] + k - 1 < op[5] THEN lines2[op[4] + k] ELSE <<>>, LAMBDA new_line :
             IF old_line # <<>> /\ new_line # <<>>
             THEN <<ChangeArgs("MODIFIED", Some(old_line), Some(new_line),
                               Location(op[2] + k),
                               Some(ComputeInlineDiff(old_line, new_line)))>>
             ELSE IF old_line # <<>>
             THEN <<ChangeArgs("DELETED", Some(old_line), None, Location(op[2] + k), None)>>
             ELSE IF new_line # <<>>
             THEN <<ChangeArgs("ADDED", None, Some(new_line), Location(op[4] + k), None)>>
             ELSE <<>>))])
    ELSE IF op[1] = "delete"
    THEN Flatten([k \in 1 .. op[3] - op[2] |->
           IF Strip(lines1[op[2] + k]) # <<>>
           THEN <<ChangeArgs("DELETED", Some(lines1[op[2] + k]), None,
                             Location(op[2] + k), None)>>
           ELSE <<>>])
    ELSE IF op[1] = "insert"
    THEN Flatten([k \in 1 .. op[5] - op[4] |->
           IF Strip(lines2[op[4] + k]) # <<>>
           THEN <<ChangeArgs("ADDED", None, Some(lines2[op[4] + k]),
                             Location(op[4] + k), None)>>
           ELSE <<>>])
    ELSE <<>>

\* the _make_change calls of _line_by_line_diff, in order
LineChanges(lines1, lines2) ==
    With(AutoGetOpcodes(lines1, lines2), LAMBDA opcodes :
      Flatten([k \in 1 .. Len(opcodes) |-> LineChangesOf(opcodes[k], lines1, lines2)]))

\* raw_changes of _semantic_diff for one opcode: <<old, new, line_num>>
RawChangesOf(op, lines1, lines2) ==
    IF op[1] = "replace"
    THEN Flatten([k \in 1 .. SetMax({op[3] - op[2], op[5] - op[4]}) |->
           With(IF op[2] + k - 1 < op[3] THEN lines1[op[2] + k] ELSE <<>>, LAMBDA old_line :
           With(IF op[4] + k - 1 < op[5] THEN lines2[op[4] + k] ELSE <<>>, LAMBDA new_line :
             IF old_line # <<>> \/ new_line # <<>>
             THEN << <<old_line, new_line, op[2] + k - 1>> >>
             ELSE <<>>))])
    ELSE IF op[1] = "delete"
    THEN [k \in 1 .. op[3] - op[2] |-> <<lines1[op[2] + k], <<>>, op[2] + k - 1>>]
    ELSE IF op[1] = "insert"
    THEN [k \in 1 .. op[5] - op[4] |-> <<<<>>, lines2[op[4] + k], op[4] + k - 1>>]
    ELSE <<>>

\* raw_changes of _semantic_diff without those of two blank texts, which the
\* second loop skips
RawChanges(lines1, lines2) ==
    With(AutoGetOpcodes(lines1, lines2), LAMBDA opcodes :
      SelectSeq(Flatten([k \in 1 .. Len(opcodes) |-> RawChangesOf(opcodes[k], lines1, lines2)]),
                LAMBDA raw : Strip(raw[1]) # <<>> \/ Strip(raw[2]) # <<>>))

\* the change _semantic_diff appends for one of raw_changes
SemanticChange(raw, hex8) ==
    With(MakeChange(ChangeArgs(IF raw[1] # <<>> /\ raw[2] # <<>> THEN "MODIFIED"
                               ELSE IF raw[1] # <<>> THEN "DELETED" ELSE "ADDED",
                               IF raw[1] # <<>> THEN Some(raw[1]) ELSE None,
                               IF raw[2] # <<>> THEN Some(raw[2]) ELSE None,
                               Location(raw[3] + 1), None),
                    hex8), LAMBDA change :
    With(ClassifySemanticChange(raw[1], raw[2]), LAMBDA semantic_type :
    With(DetectMeaningShift(raw[1], raw[2]), LAMBDA meaning_shift :
      IF IsRaised(change) THEN change
      ELSE [change EXCEPT
              !.semantic_type = Some(semantic_type),
              !.meaning_shift = meaning_shift,
              !.ai_summary = GenerateSemanticSummary(semantic_type),
              !.severity = IF meaning_shift = None THEN @
                           ELSE IF Contains(Lower(meaning_shift[1]), Kritich) THEN "CRITICAL"
                           ELSE "MAJOR"])))

\* the number of _make_change calls of a compare that raises nothing
MakeChangeCalls(t1, t2, m) ==
    IF m = "semantic" THEN Len(RawChanges(SplitLines(t1), SplitLines(t2)))
    ELSE Len(LineChanges(SplitLines(t1), SplitLines(t2)))

\* mode_info of _line_by_line_diff
LineModeInfo == [name |-> LineModeName, description |-> LineModeDescription]

\* mode_info of _semantic_diff
SemanticModeInfo == [name |-> SemanticModeName, description |-> SemanticModeDescription]

\* what the call returns once its changes are made: an exception of
\* _make_change leaves the call, else the result is built
ResultOf(changes, t1, t2, lines1, lines2, full, mode_info) ==
    IF \E k \in 1 .. Len(changes) : IsRaised(changes[k]) THEN Raised("ValueError")
    ELSE BuildResult(changes, t1, t2, BuildSideBySide(lines1, lines2, full), mode_info)

\* _line_by_line_diff; hexes[k] is the uuid4().hex[:8] of the k-th _make_change
LineByLineDiff(t1, t2, full, hexes) ==
    With(SplitLines(t1), LAMBDA lines1 :
    With(SplitLines(t2), LAMBDA lines2 :
    With(LineChanges(lines1, lines2), LAMBDA calls :
      ResultOf([k \in 1 .. Len(calls) |-> MakeChange(calls[k], hexes[k])],
               t1, t2, lines1, lines2, full, LineModeInfo))))

\* _semantic_diff
SemanticDiff(t1, t2, full, hexes) ==
    With(SplitLines(t1), LAMBDA lines1 :
    With(SplitLines(t2), LAMBDA lines2 :
    With(RawChanges(lines1, lines2), LAMBDA raw_changes :
      ResultOf([k \in 1 .. Len(raw_changes) |-> SemanticChange(raw_changes[k], hexes[k])],
               t1, t2, lines1, lines2, full, SemanticModeInfo))))

\* compare: the result dict, or Raised(kind)
Compare(t1, t2, m, full, hexes) ==
    IF m = "line-by-line" THEN LineByLineDiff(t1, t2, full, hexes)
    ELSE IF m = "semantic" THEN SemanticDiff(t1, t2, full, hexes)
    ELSE LineByLineDiff(t1, t2, full, hexes)

(***************************************************************************)
(* The engine as a state machine: a caller calls merge on documents, then  *)
(* apply_resolutions on what merge returned.                               *)
(***************************************************************************)
VARIABLES
    documents,        \* the documents of the merge call
    strategy,         \* its strategy
    base_version_id,  \* its base version id, None or Some(id)
    pc,               \* "input", "merged", "applied", "reapplied"
    result,           \* what merge returned (None before the call)
    resolutions,      \* the resolutions of the apply_resolutions call
    applied,          \* what apply_resolutions did (None before the call)
    reapplied,        \* what the same call did on the content it had returned
    db_merge,         \* the DocumentMerge row of the database, None or Some(row)
    db_documents,     \* the Document rows that finalize has added, oldest first
    response,         \* the response to the last HTTP request, None before any
    text1,            \* the first text of the compare call
    text2,            \* the second text of the compare call
    mode,             \* its mode
    show_full,        \* its show_full
    compared,         \* what compare did (None before the call)
    recompared,       \* what a second compare of the same arguments did
    matches           \* what _find_line_matches returned for the lines of the texts

requestVars == <<documents, strategy, base_version_id>>

engineVars == <<pc, result, resolutions, applied, reapplied>>

routerVars == <<db_merge, db_documents, response>>

diffVars == <<text1, text2, mode, show_full, compared, recompared, matches>>

vars == <<requestVars, engineVars, routerVars, diffVars>>

\* before any call
Idle ==
    /\ pc = "input"
    /\ result = None
    /\ resolutions = <<>>
    /\ applied = None
    /\ reapplied = None

\* no merge stored, no request made
NoRequest ==
    /\ db_merge = None
    /\ db_documents = <<>>
    /\ response = None

\* no compare call made
NoCompare ==
    /\ text1 = <<>>
    /\ text2 = <<>>
    /\ mode = "line-by-line"
    /\ show_full = TRUE
    /\ compared = None
    /\ recompared = None
    /\ matches = None

Init ==
    /\ MergeInputs(documents, strategy, base_version_id)
    /\ Idle /\ NoRequest /\ NoCompare

\* a call of MergeEngine.merge
MergeCall ==
    /\ pc = "input"
    /\ result' = Some(Merge(documents, strategy, base_version_id))
    /\ pc' = "merged"
    /\ UNCHANGED <<requestVars, resolutions, applied, reapplied, routerVars, diffVars>>

Next == MergeCall

Spec == Init /\ [][Next]_vars

(***************************************************************************)
(* Callers of the three-way merge: a base and two branches of up to three  *)
(* lines each.                                                             *)
(***************************************************************************)
\* most lines of the base and of each branch of a three-way merge
MaxBaseLines == 3

ThreeWayLines == {LineA, LineB}

\* the merge calls whose first document is the base of the two others
ThreeWayInputs(docs, s, b) ==
    \E l0 \in LineSeqs(ThreeWayLines, MaxBaseLines),
       l1 \in LineSeqs(ThreeWayLines, MaxBaseLines),
       l2 \in LineSeqs(ThreeWayLines, MaxBaseLines) :
        /\ docs = DocsOf(<<l0, l1, l2>>)
        /\ s \in Strategies
        /\ b = Some("d1")

InitThreeWay ==
    /\ ThreeWayInputs(documents, strategy, base_version_id)
    /\ Idle /\ NoRequest /\ NoCompare

SpecThreeWay == InitThreeWay /\ [][Next]_vars

(***************************************************************************)
(* Callers of apply_resolutions.  The merge calls are fewer, the           *)
(* resolution lists cover every kind of conflict_index (each index in the  *)
(* conflicts, and one that is in none) and of chosen_variant_index (below  *)
(* -len(variants), negative, in range, too large).                         *)
(***************************************************************************)
\* most lines of all documents together, for the callers of apply_resolutions
MaxApplyTotal == 3

\* most resolutions of one apply_resolutions call
MaxRes == 2

ApplyLines == {LineA, LinePay30}

ApplyInputs(docs, s, b) ==
    \/ \E l1 \in LineSeqs(ApplyLines, MaxLines), l2 \in LineSeqs(ApplyLines, MaxLines) :
         /\ docs = DocsOf(<<l1, l2>>)
         /\ s \in Strategies
         /\ b = None
    \/ \E t \in LineSeqTuples(SmallLines, 3, MaxApplyTotal) :
         /\ docs = DocsOf(t)
         /\ s \in Strategies
         /\ b \in {None, Some("d1")}

InitApply ==
    /\ ApplyInputs(documents, strategy, base_version_id)
    /\ Idle /\ NoRequest /\ NoCompare

\* the resolutions a caller may pass for a merge result
ResolutionChoices(r) ==
    LET indices == {r.conflicts[k].index : k \in 1 .. Len(r.conflicts)} \cup {Len(r.conflicts)}
        most    == SetMax({2} \cup {Len(r.conflicts[k].variants) : k \in 1 .. Len(r.conflicts)})
    IN [conflict_index : indices, chosen_variant_index : (0 - most - 1) .. most]

\* the lists of 1 .. n resolutions
RECURSIVE ResolutionLists(_, _)
ResolutionLists(choices, n) ==
    IF n = 0 THEN {}
    ELSE LET shorter == ResolutionLists(choices, n - 1)
         IN {<<c>> : c \in choices} \cup {Append(q, c) : q \in shorter, c \in choices}

\* a call of apply_resolutions on what merge returned
ApplyCall ==
    /\ pc = "merged"
    /\ ~ IsRaised(result[1])
    /\ \E rs \in ResolutionLists(ResolutionChoices(result[1]), MaxRes) :
         /\ resolutions' = rs
         /\ applied' = Some(ApplyResolutions(result[1].merged_content, result[1].conflicts, rs))
    /\ pc' = "applied"
    /\ UNCHANGED <<requestVars, result, reapplied, routerVars, diffVars>>

\* the same call again, on the content the first call returned
ReapplyCall ==
    /\ pc = "applied"
    /\ applied[1].raised = None
    /\ reapplied' = Some(ApplyResolutions(applied[1].content, result[1].conflicts, resolutions))
    /\ pc' = "reapplied"
    /\ UNCHANGED <<requestVars, result, resolutions, applied, routerVars, diffVars>>

NextApply == MergeCall \/ ApplyCall \/ ReapplyCall

SpecApply == InitApply /\ [][NextApply]_vars

(***************************************************************************)
(* The merge router over one stored merge: create, resolve-conflict,       *)
(* resolve-bulk, finalize and cancel, each a whole handler from the lookup *)
(* of the row to the commit and the response.  The Document rows of the    *)
(* current user are the documents of the state; the id "d0" names no row.  *)
(***************************************************************************)
MERGE_STRATEGIES == {"MOST_RECENT", "MANUAL"}

\* most Document rows that finalize adds in one behaviour
MaxNewDocuments == 1

\* most lines of three documents together, for the requests to the router
MaxRouterTotal == 2

\* most resolutions in the body of one resolve-bulk request
MaxBulk == 2

\* most resolutions that the requests of one behaviour put in resolved_conflicts
MaxResolved == 2

\* the documents table, the strategy and the base id of the create request:
\* two documents, or three of which the first may be named as the base
RouterInputs(docs, s, b) ==
    \/ \E l1 \in LineSeqs(ApplyLines, MaxLines), l2 \in LineSeqs(ApplyLines, MaxLines) :
         /\ docs = DocsOf(<<l1, l2>>)
         /\ s \in Strategies
         /\ b = None
    \/ \E t \in LineSeqTuples({LineA, LineB}, 3, MaxRouterTotal) :
         /\ docs = DocsOf(t)
         /\ s \in Strategies
         /\ b \in {None, Some("d1")}

InitRouter ==
    /\ RouterInputs(documents, strategy, base_version_id)
    /\ Idle /\ NoRequest /\ NoCompare

\* the document_ids of a create request: all rows, one row, or an unknown id too
RequestIds(docs) ==
    LET all == [k \in 1 .. Len(docs) |-> docs[k].id]
    IN {all, <<all[1]>>, Append(all, "d0")}

\* raise HTTPException(status_code, detail), or an unhandled exception (500):
\* nothing is committed
Reject(status_code, detail) ==
    /\ response' = Some([status_code |-> status_code, detail |-> detail])
    /\ UNCHANGED <<db_merge, db_documents>>

\* the row of the documents table with this id
RowOf(docs, doc_id) == docs[CHOOSE k \in 1 .. Len(docs) : docs[k].id = doc_id]

\* POST /: validate, collect the contents, merge, store the row
CreateMerge ==
    /\ db_merge = None
    /\ \E document_ids \in RequestIds(documents) :
         IF strategy \notin MERGE_STRATEGIES
         THEN Reject(400, "Invalid merge strategy")
         ELSE IF Len(document_ids) < 2
         THEN Reject(400, "At least 2 documents required for merge")
         ELSE IF Len(document_ids) > 10
         THEN Reject(400, "Maximum 10 documents can be merged at once")
         ELSE IF \E k \in 1 .. Len(document_ids) :
                    \A j \in 1 .. Len(documents) : documents[j].id # document_ids[k]
         THEN Reject(404, "Document not found or access denied")
         ELSE With(Merge([k \in 1 .. Len(document_ids) |-> RowOf(documents, document_ids[k])],
                         strategy, base_version_id), LAMBDA merge_result :
                IF IsRaised(merge_result)
                THEN Reject(500, merge_result.raised)
                ELSE LET has_conflicts ==
                             Len(SelectSeq(merge_result.conflicts,
                                           LAMBDA c : c.consensus_variant = None)) > 0
                         status == IF has_conflicts THEN "IN_PROGRESS" ELSE "COMPLETED"
                     IN /\ db_merge' = Some([ status |-> status,
                                              conflicts |-> merge_result.conflicts,
                                              conflicts_count |-> Len(merge_result.conflicts),
                                              merged_content |-> merge_result.merged_content,
                                              resolved_conflicts |-> <<>>,
                                              result_version_id |-> None ])
                        /\ response' = Some([ status_code |-> 200,
                                              status |-> status,
                                              conflicts_count |-> Len(merge_result.conflicts),
                                              auto_resolved |-> merge_result.auto_resolved ])
                        /\ UNCHANGED db_documents)
    /\ UNCHANGED <<requestVars, engineVars, diffVars>>

\* the resolutions a request may carry: conflict_index from -1 up to
\* conflicts_count; chosen_variant_index below -len(variants), 0 or too large
RequestChoices ==
    IF db_merge = None
    THEN {[conflict_index |-> 0, chosen_variant_index |-> 0]}
    ELSE LET merge == db_merge[1]
             most  == SetMax({2} \cup {Len(merge.conflicts[k].variants) :
                                          k \in 1 .. Len(merge.conflicts)})
         IN [conflict_index : (0 - 1) .. merge.conflicts_count,
             chosen_variant_index : {0 - most - 1, 0, most}]

\* update the first resolution of this conflict_index, or append one
Upsert(resolved, resolution) ==
    LET hits == {k \in 1 .. Len(resolved) :
                    resolved[k].conflict_index = resolution.conflict_index}
    IN IF hits # {}
       THEN [resolved EXCEPT ![SetMin(hits)].chosen_variant_index =
                                 resolution.chosen_variant_index]
       ELSE Append(resolved, [conflict_index |-> resolution.conflict_index,
                              chosen_variant_index |-> resolution.chosen_variant_index])

RECURSIVE UpsertAll(_, _, _)
\* the loop of resolve-bulk over the request's resolutions, from the k-th on
UpsertAll(resolved, requested, k) ==
    IF k > Len(requested) THEN resolved
    ELSE UpsertAll(Upsert(resolved, requested[k]), requested, k + 1)

\* What the commit leaves in the resolved_conflicts column, a plain JSON
\* column.  A list read from the row is changed in place and assigned back:
\* it is the object the session loaded, and change tracking that compares the
\* new value with the loaded one can miss the change.  A list built by the
\* handler (the column was empty) is a new value and is saved.
Committed(stored, resolved) ==
    IF stored # <<>> THEN {stored, resolved} ELSE {resolved}

\* the completion check, the commit and the response of both resolve handlers
SaveResolved(merge, resolved) ==
    LET unresolved == SelectSeq(merge.conflicts, LAMBDA c : c.consensus_variant = None)
        remaining  == Len(unresolved) - Len(resolved)
    IN IF Len(resolved) >= Len(unresolved)
       THEN With(ApplyResolutions(merge.merged_content, merge.conflicts, resolved),
                 LAMBDA final :
              IF final.raised # None
              THEN Reject(500, final.raised[1])
              ELSE /\ \E saved \in Committed(merge.resolved_conflicts, resolved) :
                        db_merge' = Some([merge EXCEPT !.resolved_conflicts = saved,
                                                       !.merged_content = final.content,
                                                       !.status = "COMPLETED"])
                   /\ response' = Some([ status_code |-> 200,
                                         remaining_conflicts |-> SetMax({0, remaining}),
                                         status |-> "COMPLETED" ])
                   /\ UNCHANGED db_documents)
       ELSE /\ \E saved \in Committed(merge.resolved_conflicts, resolved) :
                 db_merge' = Some([merge EXCEPT !.resolved_conflicts = saved])
            /\ response' = Some([ status_code |-> 200,
                                  remaining_conflicts |-> SetMax({0, remaining}),
                                  status |-> merge.status ])
            /\ UNCHANGED db_documents

\* POST /{merge_id}/resolve-conflict with this request body
ResolveConflictWith(request) ==
    /\ IF db_merge = None
       THEN Reject(404, "Merge not found")
       ELSE LET merge == db_merge[1]
            IN IF merge.status = "COMPLETED"
               THEN Reject(400, "Merge already completed")
               ELSE IF request.conflict_index >= merge.conflicts_count
               THEN Reject(400, "Invalid conflict index")
               ELSE LET resolved == Upsert(merge.resolved_conflicts, request)
                    IN Len(resolved) <= MaxResolved /\ SaveResolved(merge, resolved)
    /\ UNCHANGED <<requestVars, engineVars, diffVars>>

ResolveConflict == \E request \in RequestChoices : ResolveConflictWith(request)

\* POST /{merge_id}/resolve-bulk with these resolutions
ResolveConflictsBulkWith(requested) ==
    /\ IF db_merge = None
       THEN Reject(404, "Merge not found")
       ELSE LET merge == db_merge[1]
            IN IF merge.status = "COMPLETED"
               THEN Reject(400, "Merge already completed")
               ELSE LET resolved == UpsertAll(merge.resolved_conflicts, requested, 1)
                    IN Len(resolved) <= MaxResolved /\ SaveResolved(merge, resolved)
    /\ UNCHANGED <<requestVars, engineVars, diffVars>>

\* the bodies of the bulk requests of the model: no, one or up to MaxBulk resolutions
BulkChoices == {<<>>} \cup ResolutionLists(RequestChoices, MaxBulk)

ResolveConflictsBulk == \E requested \in BulkChoices : ResolveConflictsBulkWith(requested)

RECURSIVE ApplyConsensusFrom(_, _, _)
\* finalize's loop over the conflicts that have a consensus_variant, from the k-th on
ApplyConsensusFrom(final_content, conflicts, k) ==
    IF k > Len(conflicts) THEN final_content
    ELSE LET conflict == conflicts[k]
         IN IF conflict.consensus_variant # None
               /\ conflict.consensus_variant[1] < Len(conflict.variants)
            THEN LET content     == conflict.variants[conflict.consensus_variant[1] + 1].content
                     replacement == IF content \in {DeletedMark, AbsentMark} THEN <<>>
                                    ELSE content
                 IN ApplyConsensusFrom(
                        StrReplace(final_content, Token(conflict.index), replacement),
                        conflicts, k + 1)
            ELSE ApplyConsensusFrom(final_content, conflicts, k + 1)

\* POST /{merge_id}/finalize: refuse while a conflict has no resolution of its
\* index, else apply consensus variants and resolutions and add the document
FinalizeMerge ==
    /\ Len(db_documents) < MaxNewDocuments
    /\ IF db_merge = None
       THEN Reject(404, "Merge not found")
       ELSE LET merge == db_merge[1]
                resolved_indices == {merge.resolved_conflicts[k].conflict_index :
                                        k \in 1 .. Len(merge.resolved_conflicts)}
                unresolved == SelectSeq(merge.conflicts,
                                  LAMBDA c : c.consensus_variant = None
                                             /\ c.index \notin resolved_indices)
            IN IF unresolved # <<>>
               THEN Reject(400, "Merge not completed")
               ELSE With(ApplyConsensusFrom(merge.merged_content, merge.conflicts, 1),
                         LAMBDA consensus :
                    With(IF merge.resolved_conflicts # <<>>
                         THEN ApplyResolutions(consensus, merge.conflicts,
                                               merge.resolved_conflicts)
                         ELSE Returned(consensus), LAMBDA final :
                      IF final.raised # None
                      THEN Reject(500, final.raised[1])
                      ELSE /\ db_documents' = Append(db_documents, final.content)
                           /\ db_merge' = Some([merge EXCEPT
                                   !.result_version_id = Some(Len(db_documents) + 1),
                                   !.merged_content = final.content,
                                   !.status = "COMPLETED"])
                           /\ response' = Some([ status_code |-> 200,
                                                 new_version_id |-> Len(db_documents) + 1,
                                                 content_size |-> Len(final.content) ])))
    /\ UNCHANGED <<requestVars, engineVars, diffVars>>

\* DELETE /{merge_id}
CancelMerge ==
    /\ IF db_merge = None
       THEN Reject(404, "Merge not found")
       ELSE LET merge == db_merge[1]
            IN IF merge.status = "COMPLETED" /\ merge.result_version_id # None
               THEN Reject(400, "Cannot cancel completed and finalized merge")
               ELSE /\ db_merge' = Some([merge EXCEPT !.status = "FAILED"])
                    /\ response' = Some([status_code |-> 200, message |-> "Merge cancelled"])
                    /\ UNCHANGED db_documents
    /\ UNCHANGED <<requestVars, engineVars, diffVars>>

NextRouter ==
    CreateMerge \/ ResolveConflict \/ ResolveConflictsBulk \/ FinalizeMerge \/ CancelMerge

SpecRouter == InitRouter /\ [][NextRouter]_vars

(***************************************************************************)
(* The preview endpoint before a create request: preview stores nothing    *)
(* and answers from MergeEngine.preview_merge.                             *)
(***************************************************************************)
\* the conflicts whose analysis has this significance
CountSignificance(conflicts, significance) ==
    Len(SelectSeq(conflicts, LAMBDA c : /\ c.analysis # None
                                        /\ c.analysis[1].significance = significance))

\* _get_merge_recommendation: which message, and the count it names
MergeRecommendation(r) ==
    IF r.conflicts = <<>> THEN [message |-> "auto", count |-> 0]
    ELSE IF CountSignificance(r.conflicts, "critical") > 0
    THEN [message |-> "critical", count |-> CountSignificance(r.conflicts, "critical")]
    ELSE IF CountSignificance(r.conflicts, "high") > 0
    THEN [message |-> "high", count |-> CountSignificance(r.conflicts, "high")]
    ELSE [message |-> "conflicts", count |-> Len(r.conflicts)]

\* MergeEngine.preview_merge: merge without a base version id, and the keys
\* preview adds to its result
PreviewMerge(docs, s) ==
    With(Merge(docs, s, None), LAMBDA r :
      IF IsRaised(r) THEN r
      ELSE [ merged_content      |-> r.merged_content,
             conflicts           |-> r.conflicts,
             auto_resolved       |-> r.auto_resolved,
             merge_stats         |-> r.merge_stats,
             preview             |-> TRUE,
             estimated_conflicts |-> Len(r.conflicts),
             can_auto_merge      |-> Len(r.conflicts) = 0,
             recommendation      |-> MergeRecommendation(r) ])

\* POST /preview: collect the contents, preview, answer; no row is written
PreviewRequest ==
    /\ db_merge = None
    /\ \E document_ids \in RequestIds(documents) :
         IF Len(document_ids) < 2
         THEN Reject(400, "At least 2 documents required")
         ELSE IF \E k \in 1 .. Len(document_ids) :
                    \A j \in 1 .. Len(documents) : documents[j].id # document_ids[k]
         THEN Reject(404, "Document not found or access denied")
         ELSE With(PreviewMerge([k \in 1 .. Len(document_ids) |->
                                    RowOf(documents, document_ids[k])], strategy),
                   LAMBDA previewed :
                IF IsRaised(previewed)
                THEN Reject(500, previewed.raised)
                ELSE /\ response' = Some([ status_code         |-> 200,
                                           preview             |-> TRUE,
                                           can_auto_merge      |-> previewed.can_auto_merge,
                                           estimated_conflicts |-> previewed.estimated_conflicts,
                                           auto_resolved       |-> previewed.auto_resolved,
                                           recommendation      |-> previewed.recommendation,
                                           merge_stats         |-> previewed.merge_stats ])
                     /\ UNCHANGED <<db_merge, db_documents>>)
    /\ UNCHANGED <<requestVars, engineVars, diffVars>>

NextPreview == PreviewRequest \/ CreateMerge

SpecPreview == InitRouter /\ [][NextPreview]_vars

(***************************************************************************)
(* Callers of compare: two texts of up to two lines each, and a text of    *)
(* 200 empty lines compared with itself, long enough for the matchers to   *)
(* find popular elements.  A call draws the uuid4 of each change it makes. *)
(***************************************************************************)
\* most lines of a compared text
MaxCompareLines == 2

\* the number of lines of the long text
LongLines == 200

\* "ИНН 1234567890": its only number has ten digits
LineInn == <<1048, 1053, 1053, 32, 49, 50, 51, 52, 53, 54, 55, 56, 57, 48>>

\* the lines of a first text
OldLines == {LineA, LineOplata30, LineInn}

\* the lines of a second text
NewLines == {LineA, LineOplata30, LineOplata45, LineInn}

\* "\n" * 200
LongText == [k \in 1 .. LongLines |-> 10]

\* two modes of compare, and a mode it does not know
Modes == {"line-by-line", "semantic", "impact"}

\* two values of uuid.uuid4().hex[:8]: "0123abcd" and "89ef4567"
Hexes == {<<48, 49, 50, 51, 97, 98, 99, 100>>, <<56, 57, 101, 102, 52, 53, 54, 55>>}

\* the compare calls of the model, show_full at its default
CompareInputs(t1, t2, m, full) ==
    \/ /\ t1 = LongText
       /\ t2 = LongText
       /\ m \in {"line-by-line", "semantic"}
       /\ full = TRUE
    \/ \E l1 \in LineSeqs(OldLines, MaxCompareLines),
          l2 \in LineSeqs(NewLines, MaxCompareLines) :
         /\ t1 = Join(NL, l1)
         /\ t2 = Join(NL, l2)
         /\ m \in Modes
         /\ full = TRUE

\* no merge call made
NoMerge ==
    /\ documents = <<>>
    /\ strategy = "MANUAL"
    /\ base_version_id = None

InitCompare ==
    /\ CompareInputs(text1, text2, mode, show_full)
    /\ compared = None /\ recompared = None /\ matches = None
    /\ NoMerge /\ Idle /\ NoRequest

\* a call of DiffEngine.compare
CompareCall ==
    /\ compared = None
    /\ \E hexes \in [1 .. MakeChangeCalls(text1, text2, mode) -> Hexes] :
         compared' = Some(Compare(text1, text2, mode, show_full, hexes))
    /\ UNCHANGED <<requestVars, engineVars, routerVars,
                   text1, text2, mode, show_full, recompared, matches>>

\* a second call of compare with the same arguments
RecompareCall ==
    /\ compared # None
    /\ recompared = None
    /\ \E hexes \in [1 .. MakeChangeCalls(text1, text2, mode) -> Hexes] :
         recompared' = Some(Compare(text1, text2, mode, show_full, hexes))
    /\ UNCHANGED <<requestVars, engineVars, routerVars,
                   text1, text2, mode, show_full, compared, matches>>

NextCompare == CompareCall \/ RecompareCall

SpecCompare == InitCompare /\ [][NextCompare]_vars

(***************************************************************************)
(* Callers of _find_line_matches: _build_side_by_side hands it the lines   *)
(* of the two texts.  The first text has up to five lines, the second up   *)
(* to two, or the first text is one line followed by up to 89 lines that   *)
(* match nothing; each line of a text ends with a line break.              *)
(***************************************************************************)
\* most lines of the first text of an alignment
MaxAlignLines1 == 5

\* most lines of the second text of an alignment
MaxAlignLines2 == 2

\* "abcde"
LineAbcde == <<97, 98, 99, 100, 101>>

\* "abcd"
LineAbcd == <<97, 98, 99, 100>>

\* "abc"
LineAbc == <<97, 98, 99>>

\* "x"
LineX == <<120>>

\* the lines of a first text: "abcde", "abc", "x" and the empty line
AlignLines1 == {LineAbcde, LineAbc, LineX, <<>>}

\* the lines of a second text: "abcd", "abc" and the empty line
AlignLines2 == {LineAbcd, LineAbc, <<>>}

\* the text of the lines, each ended by "\n"
TextOf(lines) == Flatten([k \in 1 .. Len(lines) |-> lines[k] \o NL])

\* most lines "x" that follow the line "abcde" of a long first text
MaxTrailing == 89

\* the alignments of the model: the short texts, and "abcde" followed by
\* lines "x" against "abcd"
AlignInputs(t1, t2) ==
    \/ \E l1 \in LineSeqs(AlignLines1, MaxAlignLines1),
          l2 \in LineSeqs(AlignLines2, MaxAlignLines2) :
         /\ t1 = TextOf(l1)
         /\ t2 = TextOf(l2)
    \/ \E k \in 1 .. MaxTrailing :
         /\ t1 = TextOf(<<LineAbcde>> \o [n \in 1 .. k |-> LineX])
         /\ t2 = TextOf(<<LineAbcd>>)

InitAlign ==
    /\ AlignInputs(text1, text2)
    /\ mode = "line-by-line" /\ show_full = TRUE
    /\ compared = None /\ recompared = None /\ matches = None
    /\ NoMerge /\ Idle /\ NoRequest

\* the call of _find_line_matches in _build_side_by_side
FindLineMatchesCall ==
    /\ matches = None
    /\ matches' = Some(FindLineMatches(SplitLines(text1), SplitLines(text2)))
    /\ UNCHANGED <<requestVars, engineVars, routerVars,
                   text1, text2, mode, show_full, compared, recompared>>

NextAlign == FindLineMatchesCall

SpecAlign == InitAlign /\ [][NextAlign]_vars

(***************************************************************************)
(* Callers of compare with one changed line: the texts are single lines    *)
(* that differ in their numbers, their order, their dates and their        *)
(* keywords, so that every branch of the classifier is taken.              *)
(***************************************************************************)
\* "10 20"
LineTenTwenty == <<49, 48, 32, 50, 48>>

\* "20 10"
LineTwentyTen == <<50, 48, 32, 49, 48>>

\* "10 20 10"
LineTenTwentyTen == <<49, 48, 32, 50, 48, 32, 49, 48>>

\* "12/3/"
LineOpenDate == <<49, 50, 47, 51, 47>>

\* "12/3/x"
LineOpenDateX == <<49, 50, 47, 51, 47, 120>>

\* "штраф 100"
LineShtraf100 == <<1096, 1090, 1088, 1072, 1092, 32, 49, 48, 48>>

\* "штраф 105"
LineShtraf105 == <<1096, 1090, 1088, 1072, 1092, 32, 49, 48, 53>>

\* "штраф 150"
LineShtraf150 == <<1096, 1090, 1088, 1072, 1092, 32, 49, 53, 48>>

\* "a 100"
LineA100 == <<97, 32, 49, 48, 48>>

\* "a 105"
LineA105 == <<97, 32, 49, 48, 53>>

\* "1 100"
LineOne100 == <<49, 32, 49, 48, 48>>

\* "1 200"
LineOne200 == <<49, 32, 50, 48, 48>>

\* "срок a"
LineSrokA == <<1089, 1088, 1086, 1082, 32, 97>>

\* "штраф"
LineShtraf == <<1096, 1090, 1088, 1072, 1092>>

\* "1/2/2020 a"
LineDateA == <<49, 47, 50, 47, 50, 48, 50, 48, 32, 97>>

\* "1/2/2020 b"
LineDateB == <<49, 47, 50, 47, 50, 48, 50, 48, 32, 98>>

\* the single-line texts of a classified pair, and the empty text
ClassifyLines ==
    {<<>>, LineA, LineTenTwenty, LineTwentyTen, LineTenTwentyTen, LineOpenDate, LineOpenDateX,
     LineShtraf100, LineShtraf105, LineShtraf150, LineA100, LineA105,
     LineOne100, LineOne200, LineB, LineSrokA, LineShtraf,
     LineDateA, LineDateB}

\* the compare calls that classify one pair of lines
ClassifyInputs(t1, t2, m, full) ==
    /\ t1 \in ClassifyLines
    /\ t2 \in ClassifyLines
    /\ m \in {"line-by-line", "semantic"}
    /\ full = TRUE

InitClassify ==
    /\ ClassifyInputs(text1, text2, mode, show_full)
    /\ compared = None /\ recompared = None /\ matches = None
    /\ NoMerge /\ Idle /\ NoRequest

NextClassify == CompareCall

SpecClassify == InitClassify /\ [][NextClassify]_vars

(***************************************************************************)
(* Callers of compare that choose show_full: compare_documents hands it    *)
(* the query parameter, false unless the request sets it                   *)
(***************************************************************************)
\* the most lines of a text of these calls
MaxSideLines == 2

\* the lines of the texts of these calls
SideLines == {LineA, LineB, LineOplata30, LineOplata45}

\* the compare calls with either setting of show_full
SideInputs(t1, t2, m, full) ==
    \E l1 \in LineSeqs(SideLines, MaxSideLines),
       l2 \in LineSeqs(SideLines, MaxSideLines) :
      /\ t1 = Join(NL, l1)
      /\ t2 = Join(NL, l2)
      /\ m \in {"line-by-line", "semantic"}
      /\ full \in BOOLEAN

InitSide ==
    /\ SideInputs(text1, text2, mode, show_full)
    /\ compared = None /\ recompared = None /\ matches = None
    /\ NoMerge /\ Idle /\ NoRequest

NextSide == CompareCall

SpecSide == InitSide /\ [][NextSide]_vars


(***************************************************************************)
(* What the properties speak of                                            *)
(***************************************************************************)
\* the merge result of a state in which merge has returned
Merged == pc # "input" /\ ~ IsRaised(result[1])

\* the conflicts without a consensus_variant, in list order
Unresolved(r) == SelectSeq(r.conflicts, LAMBDA c : c.consensus_variant = None)

RECURSIVE ParseDigits(_, _)
\* int() of a run of digits, acc the value read so far
ParseDigits(digits, acc) ==
    IF digits = <<>> THEN acc ELSE ParseDigits(Tail(digits), 10 * acc + (Head(digits) - 48))

\* the length of a placeholder "<<<CONFLICT_" digits ">>>" that starts at pos, 0 if none
PlaceholderLen(text, pos) ==
    LET p1 == pos + Len(TokenPrefix)
        d  == IF p1 - 1 <= Len(text) /\ SubSeq(text, pos, p1 - 1) = TokenPrefix
              THEN DigitRun(text, p1) ELSE 0
    IN IF d > 0 /\ p1 + d + Len(TokenSuffix) - 1 <= Len(text)
          /\ SubSeq(text, p1 + d, p1 + d + Len(TokenSuffix) - 1) = TokenSuffix
       THEN Len(TokenPrefix) + d + Len(TokenSuffix)
       ELSE 0

\* the number a placeholder at pos carries
PlaceholderIndexAt(text, pos) ==
    ParseDigits(SubSeq(text, pos + Len(TokenPrefix),
                       pos + PlaceholderLen(text, pos) - Len(TokenSuffix) - 1), 0)

RECURSIVE PlaceholderIndices(_, _)
\* the numbers of the placeholders of text from pos on, in order of occurrence
PlaceholderIndices(text, pos) ==
    LET starts == {p \in pos .. Len(text) : PlaceholderLen(text, p) > 0}
    IN IF starts = {} THEN <<>>
       ELSE LET p == SetMin(starts)
            IN <<PlaceholderIndexAt(text, p)>>
               \o PlaceholderIndices(text, p + PlaceholderLen(text, p))

\* how often needle occurs in text
CountOcc(text, needle) ==
    Cardinality({p \in 1 .. Len(text) - Len(needle) + 1 :
                   SubSeq(text, p, p + Len(needle) - 1) = needle})

\* a resolution that names an unresolved conflict and one of its variants
ValidResolution(r, res) ==
    \E k \in 1 .. Len(r.conflicts) :
        /\ r.conflicts[k].consensus_variant = None
        /\ r.conflicts[k].index = res.conflict_index
        /\ res.chosen_variant_index >= 0
        /\ res.chosen_variant_index < Len(r.conflicts[k].variants)

AllValid(r, rs) == \A k \in 1 .. Len(rs) : ValidResolution(r, rs[k])

\* the content a chosen variant stands for: nothing for the two sentinels
ChosenContent(content) == IF content \in {DeletedMark, AbsentMark} THEN <<>> ELSE content

RECURSIVE PiecesBetween(_, _, _)
\* text from pos on, cut at the placeholders whose number is in S: the pieces
\* between them, in order
PiecesBetween(text, pos, S) ==
    LET starts == {p \in pos .. Len(text) :
                     PlaceholderLen(text, p) > 0 /\ PlaceholderIndexAt(text, p) \in S}
    IN IF starts = {} THEN <<SubSeq(text, pos, Len(text))>>
       ELSE LET p == SetMin(starts)
            IN <<SubSeq(text, pos, p - 1)>>
               \o PiecesBetween(text, p + PlaceholderLen(text, p), S)

RECURSIVE MiddleInOrder(_, _, _, _)
\* the pieces k .. Len(pieces) - 1 occur in out one after the other from pos
\* on and leave room for the last piece
MiddleInOrder(out, pos, pieces, k) ==
    IF k >= Len(pieces) THEN pos <= Len(out) - Len(pieces[Len(pieces)]) + 1
    ELSE LET occ == {p \in pos .. Len(out) - Len(pieces[k]) + 1 :
                       SubSeq(out, p, p + Len(pieces[k]) - 1) = pieces[k]}
         IN occ # {} /\ MiddleInOrder(out, SetMin(occ) + Len(pieces[k]), pieces, k + 1)

\* out is the pieces in order with some text between each two of them
KeepsPieces(out, pieces) ==
    IF Len(pieces) = 1 THEN out = pieces[1]
    ELSE /\ Len(out) >= Len(pieces[1]) + Len(pieces[Len(pieces)])
         /\ SubSeq(out, 1, Len(pieces[1])) = pieces[1]
         /\ SubSeq(out, Len(out) - Len(pieces[Len(pieces)]) + 1, Len(out)) = pieces[Len(pieces)]
         /\ MiddleInOrder(out, Len(pieces[1]) + 1, pieces, 2)

(***************************************************************************)
(* Properties                                                              *)
(***************************************************************************)
\* C1: the placeholders of merged_content are, in order, exactly the indices of
\* the conflicts without consensus_variant, each once (so their number is the
\* number of those conflicts), on every merge path and under every strategy.
PlaceholderInvariant ==
    Merged =>
        LET un == Unresolved(result[1])
        IN /\ PlaceholderIndices(result[1].merged_content, 1)
                = [k \in 1 .. Len(un) |-> un[k].index]
           /\ \A j, k \in 1 .. Len(un) : j # k => un[j].index # un[k].index

\* a result with placeholders for some conflicts and none for a recorded one
PlaceholderWitness ==
    /\ Merged
    /\ Len(Unresolved(result[1])) >= 1
    /\ Len(Unresolved(result[1])) < Len(result[1].conflicts)

\* C2: the k-th conflict of a result (counting from 0, resolved ones included)
\* has index k.
ConflictIndicesSequential ==
    Merged => \A k \in 1 .. Len(result[1].conflicts) : result[1].conflicts[k].index = k - 1

\* C3: a single valid resolution of an unresolved conflict c replaces the
\* placeholder of c by the content of the chosen variant of c (nothing for a
\* sentinel), and the placeholder is gone.
SingleResolutionApplied ==
    (Merged /\ pc = "applied" /\ Len(resolutions) = 1) =>
        \A k \in 1 .. Len(result[1].conflicts) :
            LET c   == result[1].conflicts[k]
                res == resolutions[1]
            IN (/\ c.consensus_variant = None
                /\ c.index = res.conflict_index
                /\ res.chosen_variant_index >= 0
                /\ res.chosen_variant_index < Len(c.variants))
               => /\ applied[1].raised = None
                  /\ applied[1].content
                       = StrReplace(result[1].merged_content, Token(c.index),
                                    ChosenContent(c.variants[res.chosen_variant_index + 1].content))
                  /\ ~ Contains(applied[1].content, Token(c.index))

\* C4: applying a list of valid resolutions to the content the same call
\* returned gives that content again.
ApplyIdempotent ==
    (pc = "reapplied" /\ AllValid(result[1], resolutions)) =>
        /\ reapplied[1].raised = None
        /\ reapplied[1].content = applied[1].content

\* the resolutions were valid, replaced a placeholder, and were applied again
ApplyIdempotentWitness ==
    /\ pc = "reapplied"
    /\ AllValid(result[1], resolutions)
    /\ Len(resolutions) >= 2
    /\ applied[1].content # result[1].merged_content

\* the conflicts of a stored merge that have no consensus_variant and of whose
\* index the resolved list holds no resolution
Unmatched(merge, resolved) ==
    {k \in 1 .. Len(merge.conflicts) :
        /\ merge.conflicts[k].consensus_variant = None
        /\ \A j \in 1 .. Len(resolved) :
              resolved[j].conflict_index # merge.conflicts[k].index}

\* C5: a resolve-conflict or resolve-bulk call that is answered with 200 on a
\* merge IN_PROGRESS sets the status to COMPLETED exactly when, with the
\* resolutions of the call in the resolved list, every conflict whose
\* consensus_variant is null has a resolution of its index.
StatusCompletedExactlyWhenResolved ==
    [][ (db_merge # None /\ db_merge[1].status = "IN_PROGRESS")
        => /\ \A request \in RequestChoices :
                (ResolveConflictWith(request) /\ response'[1].status_code = 200)
                => (db_merge'[1].status = "COMPLETED"
                    <=> Unmatched(db_merge[1],
                                  Upsert(db_merge[1].resolved_conflicts, request)) = {})
           /\ \A requested \in BulkChoices :
                (ResolveConflictsBulkWith(requested) /\ response'[1].status_code = 200)
                => (db_merge'[1].status = "COMPLETED"
                    <=> Unmatched(db_merge[1],
                                  UpsertAll(db_merge[1].resolved_conflicts,
                                            requested, 1)) = {}) ]_vars

\* C6: a resolution whose conflict_index is in no conflict, or whose
\* chosen_variant_index is outside 0 .. len(variants) - 1, changes nothing: no
\* exception, and the output is that of the list without it.
InvalidResolutionNoOp ==
    (Merged /\ pc = "applied") =>
        LET r    == result[1]
            ok(res) == LET c == FindConflict(r.conflicts, res.conflict_index)
                       IN /\ c # None
                          /\ res.chosen_variant_index >= 0
                          /\ res.chosen_variant_index < Len(c[1].variants)
        IN /\ applied[1].raised = None
           /\ applied[1] = ApplyResolutions(r.merged_content, r.conflicts,
                                            SelectSeq(resolutions, ok))

\* C7: valid resolutions for some of the unresolved conflicts leave the
\* placeholder of every other unresolved conflict in the output exactly once,
\* and all text but the placeholders they name as it was and in its order.
PartialApplicationFrame ==
    (Merged /\ pc = "applied" /\ AllValid(result[1], resolutions)) =>
        LET r  == result[1]
            S  == {resolutions[k].conflict_index : k \in 1 .. Len(resolutions)}
            un == Unresolved(r)
        IN /\ applied[1].raised = None
           /\ \A k \in 1 .. Len(un) :
                un[k].index \notin S => CountOcc(applied[1].content, Token(un[k].index)) = 1
           /\ KeepsPieces(applied[1].content, PiecesBetween(r.merged_content, 1, S))

\* some conflicts resolved, another left, and text on both sides of them
PartialApplicationWitness ==
    /\ Merged /\ pc = "applied" /\ AllValid(result[1], resolutions)
    /\ \E k \in 1 .. Len(result[1].conflicts) :
         /\ result[1].conflicts[k].consensus_variant = None
         /\ \A j \in 1 .. Len(resolutions) :
              resolutions[j].conflict_index # result[1].conflicts[k].index
    /\ Len(PiecesBetween(result[1].merged_content, 1,
                         {resolutions[k].conflict_index : k \in 1 .. Len(resolutions)})) >= 2

\* the base document and the other documents of the merge call
BaseDocOfCall ==
    documents[SetMin({i \in 1 .. Len(documents) : documents[i].id = base_version_id[1]})]

RestOfCall ==
    IF base_version_id # None /\ \E i \in 1 .. Len(documents) : documents[i].id = base_version_id[1]
    THEN SelectSeq(documents, LAMBDA d : d.id # base_version_id[1])
    ELSE documents

RECURSIVE ThreeWayVisits(_, _, _, _, _, _, _, _)
\* the base lines the three-way walk visits, each with the loop variables
\* before and after its pass
ThreeWayVisits(acc, i, base_lines, changes1, changes2, doc1, doc2, allow_auto_resolve) ==
    IF i >= Len(base_lines) THEN <<>>
    ELSE LET s == ThreeWayStep(acc, i, base_lines, changes1, changes2, doc1, doc2,
                               allow_auto_resolve)
         IN <<[i |-> i, before |-> acc, after |-> s[1]]>>
            \o ThreeWayVisits(s[1], s[2], base_lines, changes1, changes2, doc1, doc2,
                              allow_auto_resolve)

\* C8: in a three-way merge, a base line to which v1 and v2 make the identical
\* edit (the same replacement text, or both delete it) gets no conflict and
\* puts the common result into the merged content exactly once (nothing for a
\* deletion), under either strategy: merged_content is what the walk gives
\* with exactly that put at those lines.
ThreeWayConsensus ==
    (Merged /\ MergePath(documents, base_version_id) = "three_way") =>
        LET base_lines == SplitIntoBlocks(BaseDocOfCall.content)
            lines1     == SplitIntoBlocks(RestOfCall[1].content)
            lines2     == SplitIntoBlocks(RestOfCall[2].content)
            changes1   == ExtractChanges(GetOpcodes(base_lines, lines1), base_lines, lines1)
            changes2   == ExtractChanges(GetOpcodes(base_lines, lines2), base_lines, lines2)
            visits     == ThreeWayVisits(Acc(<<>>, <<>>, 0, 0), 0, base_lines, changes1, changes2,
                                         RestOfCall[1], RestOfCall[2], strategy # "MANUAL")
            same(i)    == /\ i \in DOMAIN changes1 /\ i \in DOMAIN changes2
                          /\ changes1[i].type = changes2[i].type
                          /\ changes1[i].type \in {"replace", "delete"}
                          /\ changes1[i].content = changes2[i].content
            put(k)     == IF same(visits[k].i)
                          THEN (IF changes1[visits[k].i].type = "delete" THEN <<>>
                                ELSE <<changes1[visits[k].i].content>>)
                          ELSE SubSeq(visits[k].after.merged_lines,
                                      Len(visits[k].before.merged_lines) + 1,
                                      Len(visits[k].after.merged_lines))
        IN /\ \A k \in 1 .. Len(visits) :
                same(visits[k].i) => visits[k].after.conflicts = visits[k].before.conflicts
           /\ result[1].merged_content
                = Join(NL, Concat([k \in 1 .. Len(visits) |-> put(k)]))

\* the documents of scenario A
ScenarioADocs == DocsOf(<< <<LineOplata30>>, <<LineOplata45>> >>)

\* "30" and "45"
Str30 == <<51, 48>>

Str45 == <<52, 53>>

\* what scenario A expects of the one conflict
ScenarioAConflict(r) ==
    /\ Len(r.conflicts) = 1
    /\ r.conflicts[1].type = "REPLACE"
    /\ r.conflicts[1].consensus_variant = None
    /\ r.auto_resolved = 0
    /\ r.conflicts[1].analysis[1].type = "numerical"
    /\ r.conflicts[1].analysis[1].old_numbers = Some({Str30})
    /\ r.conflicts[1].analysis[1].new_numbers = Some({Str45})

\* C9 as stated: under a strategy other than MANUAL scenario A returns exactly
\* one REPLACE conflict without consensus_variant, auto_resolved 0, analysis
\* numerical with old_numbers ["30"] and new_numbers ["45"].
ScenarioAConflictUnderAuto ==
    (Merged /\ documents = ScenarioADocs /\ strategy # "MANUAL") => ScenarioAConflict(result[1])

\* C9 amended: under a strategy other than MANUAL the similarity of the two
\* lines (44/48) is above 0.85, so scenario A returns no conflict, the second
\* document's line and auto_resolved 1; under MANUAL it returns the one REPLACE
\* conflict with the numerical analysis.
ScenarioAByStrategy ==
    (Merged /\ documents = ScenarioADocs) =>
        IF strategy # "MANUAL"
        THEN /\ result[1].conflicts = <<>>
             /\ result[1].auto_resolved = 1
             /\ result[1].merged_content = LineOplata45
        ELSE /\ ScenarioAConflict(result[1])
             /\ result[1].merged_content = Token(0)

ScenarioAWitness ==
    /\ Merged /\ documents = ScenarioADocs /\ strategy = "MOST_RECENT"
    /\ result[1].auto_resolved = 1

\* the lines the documents have at line_num
LinesAt(docs, line_num) ==
    { SplitIntoBlocks(docs[i].content)[line_num + 1] :
        i \in {j \in 1 .. Len(docs) : line_num < Len(SplitIntoBlocks(docs[j].content))} }

\* the number of lines of the longest document
MostLines(docs) == SetMax({Len(SplitIntoBlocks(docs[i].content)) : i \in 1 .. Len(docs)})

\* no conflict, the common line where the documents agree, and where they
\* disagree the last document's line, else the base's line, else an empty line
MostRecentOutcome(r, docs, base_lines) ==
    LET last == SplitIntoBlocks(docs[Len(docs)].content)
        line(n) == IF Cardinality(LinesAt(docs, n)) = 1 THEN CHOOSE l \in LinesAt(docs, n) : TRUE
                   ELSE IF n < Len(last) THEN last[n + 1]
                   ELSE IF n < Len(base_lines) THEN base_lines[n + 1]
                   ELSE <<>>
    IN /\ r.conflicts = <<>>
       /\ r.merged_content = Join(NL, [k \in 1 .. MostLines(docs) |-> line(k - 1)])
       /\ r.auto_resolved
            = Cardinality({n \in 0 .. MostLines(docs) - 1 : Cardinality(LinesAt(docs, n)) > 1})

\* the first of the longest documents
LongestDoc(docs) ==
    docs[SetMin({i \in 1 .. Len(docs) : Len(SplitIntoBlocks(docs[i].content)) = MostLines(docs)})]

\* C10 as stated: a MOST_RECENT merge of three or more documents has no
\* conflict and the lines and the count described.
MostRecentNeverConflicts ==
    (Merged /\ strategy = "MOST_RECENT" /\ Len(documents) >= 3) =>
        MostRecentOutcome(result[1], RestOfCall,
            SplitIntoBlocks((IF RestOfCall # documents THEN BaseDocOfCall
                             ELSE LongestDoc(documents)).content))

\* C10 amended: a MOST_RECENT merge in which three or more documents remain
\* besides the base (if one is named) has no conflict; it keeps the common line
\* where the documents that have a line agree, and where they disagree takes
\* the last document's line, the base's line if the last document is shorter,
\* an empty line if the base has no line there either; auto_resolved is the
\* number of indices where they disagree.
MostRecentManyDocs ==
    (Merged /\ strategy = "MOST_RECENT" /\ Len(RestOfCall) >= 3) =>
        MostRecentOutcome(result[1], RestOfCall,
            SplitIntoBlocks((IF RestOfCall # documents THEN BaseDocOfCall
                             ELSE LongestDoc(documents)).content))

\* the documents disagree where the last one has no line, under a named base
MostRecentWitness ==
    /\ Merged /\ strategy = "MOST_RECENT" /\ Len(RestOfCall) >= 3
    /\ RestOfCall # documents
    /\ result[1].auto_resolved >= 1
    /\ \E n \in 0 .. MostLines(RestOfCall) - 1 :
         /\ Cardinality(LinesAt(RestOfCall, n)) > 1
         /\ n >= Len(SplitIntoBlocks(RestOfCall[Len(RestOfCall)].content))

(***************************************************************************)
(* Fewer than two documents                                                *)
(***************************************************************************)
\* C15: a merge call with fewer than two documents returns without raising:
\* merged_content is the empty string for no document and the content of the
\* document for one, conflicts is empty and auto_resolved is 0.
FewDocumentsTrivial ==
    (pc # "input" /\ Len(documents) < 2)
    => /\ ~ IsRaised(result[1])
       /\ result[1].merged_content =
              (IF Len(documents) = 0 THEN <<>> ELSE documents[1].content)
       /\ result[1].conflicts = <<>>
       /\ result[1].auto_resolved = 0

\* merge has returned for one document that has text
FewDocumentsWitness ==
    /\ pc = "merged"
    /\ Len(documents) = 1
    /\ documents[1].content # <<>>
    /\ result[1].merged_content = documents[1].content

(***************************************************************************)
(* The three-way walk over the base lines                                  *)
(***************************************************************************)
\* the lines of the base and of the two branches of a three-way call
BaseLinesOfCall == SplitIntoBlocks(BaseDocOfCall.content)

Changes1OfCall ==
    ExtractChanges(GetOpcodes(BaseLinesOfCall, SplitIntoBlocks(RestOfCall[1].content)),
                   BaseLinesOfCall, SplitIntoBlocks(RestOfCall[1].content))

Changes2OfCall ==
    ExtractChanges(GetOpcodes(BaseLinesOfCall, SplitIntoBlocks(RestOfCall[2].content)),
                   BaseLinesOfCall, SplitIntoBlocks(RestOfCall[2].content))

\* the conflicts of r that are located at base line i (0-based)
ConflictsAtLine(r, i) == SelectSeq(r.conflicts, LAMBDA c : c.location = <<"line", i + 1>>)

\* C16: in a three-way merge every base line that both branches change, with
\* differing resulting content, has a THREE_WAY conflict with the three
\* variants Base, v1 result, v2 result, no consensus_variant, and its
\* placeholder in merged_content, whatever happens on the lines before it.
BothChangedConflict ==
    (Merged /\ MergePath(documents, base_version_id) = "three_way") =>
        \A i \in DOMAIN Changes1OfCall \cap DOMAIN Changes2OfCall :
            Changes1OfCall[i].content # Changes2OfCall[i].content
            => /\ Len(ConflictsAtLine(result[1], i)) = 1
               /\ ConflictsAtLine(result[1], i)[1].type = "THREE_WAY"
               /\ ConflictsAtLine(result[1], i)[1].consensus_variant = None
               /\ ConflictsAtLine(result[1], i)[1].variants
                    = << Variant("Base", BaseLinesOfCall[i + 1], 1),
                         Variant(RestOfCall[1].name, Changes1OfCall[i].content, 1),
                         Variant(RestOfCall[2].name, Changes2OfCall[i].content, 1) >>
               /\ CountOcc(result[1].merged_content,
                           Token(ConflictsAtLine(result[1], i)[1].index)) = 1

\* what the walk of the call put into merged_lines at base line i: nothing if
\* it did not visit the line
WalkPiece(visits, i) ==
    IF \E k \in 1 .. Len(visits) : visits[k].i = i
    THEN LET k == CHOOSE k \in 1 .. Len(visits) : visits[k].i = i
         IN SubSeq(visits[k].after.merged_lines, Len(visits[k].before.merged_lines) + 1,
                   Len(visits[k].after.merged_lines))
    ELSE <<>>

\* C17: in a three-way merge a base line changed in neither branch is copied;
\* a base line changed in exactly one branch is, under the automatic strategy,
\* replaced by the branch's content (by nothing for a deletion) with no
\* conflict and auto_resolved raised, and under MANUAL gets one conflict with
\* the two variants Base and the changed branch and one placeholder.
\* merged_content is these pieces, and what the walk did at the lines both
\* branches change, in the order of the base lines.
OneBranchChanges ==
    (Merged /\ MergePath(documents, base_version_id) = "three_way") =>
        LET visits  == ThreeWayVisits(Acc(<<>>, <<>>, 0, 0), 0, BaseLinesOfCall,
                                      Changes1OfCall, Changes2OfCall,
                                      RestOfCall[1], RestOfCall[2], strategy # "MANUAL")
            in1(i)  == i \in DOMAIN Changes1OfCall
            in2(i)  == i \in DOMAIN Changes2OfCall
            one(i)  == in1(i) # in2(i)
            chg(i)  == IF in1(i) THEN Changes1OfCall[i] ELSE Changes2OfCall[i]
            doc(i)  == IF in1(i) THEN RestOfCall[1] ELSE RestOfCall[2]
            before(i) == Cardinality({j \in 0 .. i - 1 : in1(j) \/ in2(j)})
            piece(i) ==
                IF ~ in1(i) /\ ~ in2(i) THEN <<BaseLinesOfCall[i + 1]>>
                ELSE IF ~ one(i) THEN WalkPiece(visits, i)
                ELSE IF strategy = "MANUAL" THEN <<Token(before(i))>>
                ELSE IF chg(i).type = "delete" THEN <<>>
                ELSE <<chg(i).content>>
            lines == 0 .. Len(BaseLinesOfCall) - 1
        IN /\ result[1].merged_content
                = Join(NL, Concat([n \in 1 .. Len(BaseLinesOfCall) |-> piece(n - 1)]))
           /\ \A i \in lines :
                one(i) =>
                    IF strategy = "MANUAL"
                    THEN /\ Len(ConflictsAtLine(result[1], i)) = 1
                         /\ ConflictsAtLine(result[1], i)[1].consensus_variant = None
                         /\ ConflictsAtLine(result[1], i)[1].variants
                              = << Variant("Base", BaseLinesOfCall[i + 1], 1),
                                   Variant(doc(i).name, chg(i).content, 1) >>
                    ELSE /\ ConflictsAtLine(result[1], i) = <<>>
                         /\ result[1].auto_resolved > 0

(***************************************************************************)
(* The two-way walk over the opcodes                                       *)
(***************************************************************************)
Lines1OfCall == SplitIntoBlocks(documents[1].content)

Lines2OfCall == SplitIntoBlocks(documents[2].content)

OpcodesOfCall == GetOpcodes(Lines1OfCall, Lines2OfCall)

RECURSIVE TwoWayVisits(_, _, _, _, _, _, _, _)
\* the loop variables of _two_way_merge before and after each opcode
TwoWayVisits(acc, opcodes, k, lines1, lines2, doc1, doc2, allow_auto_resolve) ==
    IF k > Len(opcodes) THEN <<>>
    ELSE LET after == TwoWayStep(acc, opcodes[k], lines1, lines2, doc1, doc2,
                                 allow_auto_resolve)
         IN <<[before |-> acc, after |-> after]>>
            \o TwoWayVisits(after, opcodes, k + 1, lines1, lines2, doc1, doc2,
                            allow_auto_resolve)

VisitsOfCall ==
    TwoWayVisits(Acc(<<>>, <<>>, 0, 0), OpcodesOfCall, 1, Lines1OfCall, Lines2OfCall,
                 documents[1], documents[2], strategy # "MANUAL")

\* the lines, and the count of automatic resolutions, the walk added at opcode k
LinesAddedAt(k) ==
    SubSeq(VisitsOfCall[k].after.merged_lines, Len(VisitsOfCall[k].before.merged_lines) + 1,
           Len(VisitsOfCall[k].after.merged_lines))

AutoAddedAt(k) == VisitsOfCall[k].after.auto_resolved - VisitsOfCall[k].before.auto_resolved

RECURSIVE SumTo(_, _)
\* f(1) + ... + f(n)
SumTo(f(_), n) == IF n = 0 THEN 0 ELSE f(n) + SumTo(f, n - 1)

\* the texts of the two blocks of opcode op
OldTextOf(op) == Join(NL, Slice(Lines1OfCall, op[2], op[3]))

NewTextOf(op) == Join(NL, Slice(Lines2OfCall, op[4], op[5]))

\* the conflicts of the result that have the given type and location
ConflictsOf(type, location) ==
    SelectSeq(result[1].conflicts, LAMBDA c : c.type = type /\ c.location = location)

\* a replace block is accepted: the strategy is not MANUAL and the similarity
\* of the two blocks is above 0.85
ReplaceAccepted(op) ==
    /\ strategy # "MANUAL"
    /\ 100 * CalculateSimilarity(OldTextOf(op), NewTextOf(op))[1]
         > 85 * CalculateSimilarity(OldTextOf(op), NewTextOf(op))[2]

\* C18: in a two-way merge an accepted replace block (strategy not MANUAL,
\* similarity > 0.85) puts the second document's block into merged_content,
\* adds 1 to auto_resolved and emits no conflict; every other replace block
\* emits exactly one REPLACE conflict with consensus_variant null and the two
\* blocks as variants, and puts its placeholder at that position.
ReplaceBlocks ==
    (Merged /\ MergePath(documents, base_version_id) = "two_way") =>
        LET ops       == OpcodesOfCall
            confl(k)  == ConflictsOf("REPLACE", <<"lines", ops[k][2] + 1, ops[k][3]>>)
            piece(k)  == IF ops[k][1] # "replace" THEN LinesAddedAt(k)
                         ELSE IF ReplaceAccepted(ops[k])
                         THEN Slice(Lines2OfCall, ops[k][4], ops[k][5])
                         ELSE IF confl(k) = <<>> THEN <<>>
                         ELSE <<Token(confl(k)[1].index)>>
            auto(k)   == IF ops[k][1] # "replace" THEN AutoAddedAt(k)
                         ELSE IF ReplaceAccepted(ops[k]) THEN 1 ELSE 0
        IN /\ \A k \in 1 .. Len(ops) :
                ops[k][1] = "replace" =>
                    IF ReplaceAccepted(ops[k]) THEN confl(k) = <<>>
                    ELSE /\ Len(confl(k)) = 1
                         /\ confl(k)[1].consensus_variant = None
                         /\ confl(k)[1].variants
                              = << Variant(documents[1].name, OldTextOf(ops[k]),
                                           ops[k][3] - ops[k][2]),
                                   Variant(documents[2].name, NewTextOf(ops[k]),
                                           ops[k][5] - ops[k][4]) >>
           /\ result[1].merged_content = Join(NL, Concat([k \in 1 .. Len(ops) |-> piece(k)]))
           /\ result[1].auto_resolved = SumTo(auto, Len(ops))
           /\ Len(SelectSeq(result[1].conflicts, LAMBDA c : c.type = "REPLACE"))
                = Cardinality({k \in 1 .. Len(ops) :
                                 ops[k][1] = "replace" /\ ~ ReplaceAccepted(ops[k])})

\* a merge under a strategy other than MANUAL has accepted a replace block
ReplaceBlocksWitness ==
    /\ Merged
    /\ MergePath(documents, base_version_id) = "two_way"
    /\ \E k \in 1 .. Len(OpcodesOfCall) :
         OpcodesOfCall[k][1] = "replace" /\ ReplaceAccepted(OpcodesOfCall[k])
    /\ result[1].auto_resolved >= 1
    /\ result[1].conflicts = <<>>

\* the length of text once its whitespace is removed
StrippedLen(text) == Len(SelectSeq(text, LAMBDA c : c \notin Whitespace))

\* C19: in a two-way merge an inserted block of stripped length <= 10 is
\* copied into merged_content with no conflict; a longer one is, under a
\* strategy other than MANUAL, copied and recorded as an INSERT conflict with
\* consensus_variant 1 and no placeholder, and under MANUAL not copied: it
\* gets an INSERT conflict with consensus_variant null and one placeholder at
\* that position.
InsertBlocks ==
    (Merged /\ MergePath(documents, base_version_id) = "two_way") =>
        LET ops       == OpcodesOfCall
            confl(k)  == ConflictsOf("INSERT", <<"after line", ops[k][2]>>)
            long(k)   == StrippedLen(NewTextOf(ops[k])) > 10
            piece(k)  == IF ops[k][1] # "insert" THEN LinesAddedAt(k)
                         ELSE IF long(k) /\ strategy = "MANUAL"
                         THEN (IF confl(k) = <<>> THEN <<>> ELSE <<Token(confl(k)[1].index)>>)
                         ELSE Slice(Lines2OfCall, ops[k][4], ops[k][5])
        IN /\ \A k \in 1 .. Len(ops) :
                ops[k][1] = "insert" =>
                    IF ~ long(k) THEN confl(k) = <<>>
                    ELSE /\ Len(confl(k)) = 1
                         /\ confl(k)[1].consensus_variant
                              = (IF strategy = "MANUAL" THEN None ELSE Some(1))
                         /\ confl(k)[1].variants[2].content = NewTextOf(ops[k])
           /\ result[1].merged_content = Join(NL, Concat([k \in 1 .. Len(ops) |-> piece(k)]))
           /\ Len(SelectSeq(result[1].conflicts, LAMBDA c : c.type = "INSERT"))
                = Cardinality({k \in 1 .. Len(ops) : ops[k][1] = "insert" /\ long(k)})
           /\ \A n \in 1 .. Len(result[1].conflicts) :
                (result[1].conflicts[n].type = "INSERT" /\ strategy # "MANUAL")
                => CountOcc(result[1].merged_content, Token(result[1].conflicts[n].index))
                     = Cardinality({m \in 1 .. Len(result[1].conflicts) :
                                      /\ result[1].conflicts[m].index
                                           = result[1].conflicts[n].index
                                      /\ result[1].conflicts[m].consensus_variant = None})

\* a merge under MANUAL has made a conflict of a long inserted block
InsertBlocksWitness ==
    /\ Merged
    /\ MergePath(documents, base_version_id) = "two_way"
    /\ strategy = "MANUAL"
    /\ \E k \in 1 .. Len(OpcodesOfCall) :
         /\ OpcodesOfCall[k][1] = "insert"
         /\ StrippedLen(NewTextOf(OpcodesOfCall[k])) > 10
         /\ Len(ConflictsOf("INSERT", <<"after line", OpcodesOfCall[k][2]>>)) = 1

(***************************************************************************)
(* Properties of compare                                                   *)
(***************************************************************************)
\* a compare call has returned a result
Compared == compared # None /\ ~ IsRaised(compared[1])

\* C11: two calls of compare with the same texts and the same mode return
\* results that are equal in every field, the id of every change included.
CompareDeterministic == recompared # None => recompared = compared

\* C12: a compare call returns a result and raises no exception, for any two
\* texts and any mode, whatever numeric tokens the changed lines hold.
CompareNeverRaises == compared # None => ~ IsRaised(compared[1])

\* C13: a compare of a text with itself, in any mode, returns a result with
\* similarity_score 1.0 and an empty list of changes; the text may be empty
\* or made of the same line or character over and over.
SelfSimilarity ==
    (compared # None /\ text1 = text2)
    => /\ Compared
       /\ compared[1].summary.similarity_score = <<1000, 1000>>
       /\ compared[1].changes = <<>>

\* a text with popular lines and popular characters has been compared with
\* itself
SelfSimilarityWitness ==
    /\ Compared
    /\ text1 = text2
    /\ Popular(text1) # {}
    /\ Popular(SplitLines(text1)) # {}

(***************************************************************************)
(* Properties of the line aligner                                          *)
(***************************************************************************)
\* the lines handed to _find_line_matches
AlignedLines1 == SplitLines(text1)

AlignedLines2 == SplitLines(text2)

\* a line of whitespace only
Blank(line) == Strip(line) = <<>>

RECURSIVE MatchingsFrom(_, _, _)
\* the monotonic matchings of pairs (i, j) with sim > 0 from row i0 and column
\* j0 on, each a list of 0-based pairs strictly increasing in both coordinates
MatchingsFrom(sims, i0, j0) ==
    {<<>>} \cup
    UNION {{<< <<i, j>> >> \o rest : rest \in MatchingsFrom(sims, i + 1, j + 1)} :
           <<i, j>> \in {p \in (i0 .. Len(sims) - 1) \X (j0 .. Len(sims[1]) - 1) :
                           FloatGreater(sims[p[1] + 1][p[2] + 1], FloatZero)}}

RECURSIVE SimSum(_, _)
\* the sum of sim over the pairs of a matching, not rounded
SimSum(sims, ms) ==
    IF ms = <<>> THEN FloatZero
    ELSE LET s == sims[ms[1][1] + 1][ms[1][2] + 1]
             t == SimSum(sims, Tail(ms))
         IN Limbs(s[1] + t[1], s[2] + t[2], s[3] + t[3])

\* k times 0.01, not rounded
PenaltyTimes(k) == Limbs(k * FloatPenalty[1], k * FloatPenalty[2], k * FloatPenalty[3])

\* the lines of both texts a matching leaves unmatched
UnmatchedLines(sims, ms) == Len(sims) + Len(sims[1]) - 2 * Len(ms)

\* the cumulative score of ms is at least that of other: the sum of sim minus
\* 0.01 for every unmatched line, the penalties moved to the other side
ScoreAtLeast(sims, ms, other) ==
    LET mine   == SimSum(sims, ms)
        theirs == SimSum(sims, other)
        owed   == PenaltyTimes(UnmatchedLines(sims, other))
        due    == PenaltyTimes(UnmatchedLines(sims, ms))
    IN ~ FloatGreater(Limbs(theirs[1] + due[1], theirs[2] + due[2], theirs[3] + due[3]),
                      Limbs(mine[1] + owed[1], mine[2] + owed[2], mine[3] + owed[3]))

\* C20: the pairs _find_line_matches returns attain the greatest cumulative
\* score (the sum of sim over the matched pairs minus 0.01 for every unmatched
\* line of either text) of all monotonic matchings of pairs with sim > 0
AlignerOptimal ==
    (matches # None /\ AlignedLines1 # <<>> /\ AlignedLines2 # <<>>) =>
      LET sims == SimMatrix(AlignedLines1, AlignedLines2)
      IN \A other \in MatchingsFrom(sims, 0, 0) : ScoreAtLeast(sims, matches[1], other)

\* C21: if some line of the first text and some line of the second have
\* sim > 0, _find_line_matches returns at least one pair, however many
\* unmatched lines precede or follow them
AlignerPrefersMatch ==
    (/\ matches # None
     /\ \E i \in 1 .. Len(AlignedLines1), j \in 1 .. Len(AlignedLines2) :
          FloatGreater(SimOf(AlignedLines1[i], AlignedLines2[j]), FloatZero))
    => matches[1] # <<>>

(***************************************************************************)
(* Properties of the change classifier                                     *)
(***************************************************************************)
\* the old and the new text of a change, "" for None
OldOf(change) == Concat(change.original_text)

NewOf(change) == Concat(change.new_text)

\* the set of numeric tokens of a text
NumberSetOf(text) == {NumberTokens(text, 1)[k] : k \in 1 .. Len(NumberTokens(text, 1))}

\* a date-shaped token appears in the text
HasDate(text) == \E p \in 1 .. Len(text) : DateMatchLen(text, p) > 0

\* C22: the classification of a change is NUMERICAL_CHANGE exactly when the
\* set of numeric tokens of old differs from that of new; otherwise it is
\* TEMPORAL_CHANGE if a date-shaped token appears in old or in new, and
\* TEXT_CHANGE otherwise
ClassificationByNumberSets ==
    Compared =>
      \A k \in 1 .. Len(compared[1].changes) :
        LET change == compared[1].changes[k]
        IN change.classification =
             IF NumberSetOf(OldOf(change)) # NumberSetOf(NewOf(change))
             THEN "NUMERICAL_CHANGE"
             ELSE IF HasDate(OldOf(change)) \/ HasDate(NewOf(change))
             THEN "TEMPORAL_CHANGE"
             ELSE "TEXT_CHANGE"

\* the first index at which both lists of numbers have a number and the
\* numbers differ, as a set of at most one index
FirstDiffering(old_nums, new_nums) ==
    LET differing == {k \in 1 .. SetMin({Len(old_nums), Len(new_nums)}) :
                        old_nums[k] # new_nums[k]}
    IN IF differing = {} THEN {} ELSE {SetMin(differing)}

\* a keyword of the family appears in old or in new
EitherHasKeyword(change, keywords) ==
    \/ AnyKeyword(Lower(OldOf(change)), keywords)
    \/ AnyKeyword(Lower(NewOf(change)), keywords)

\* the severity of the documented cascade
CascadeSeverity(change) ==
    IF /\ NumberSetOf(OldOf(change)) # NumberSetOf(NewOf(change))
       /\ \E k \in FirstDiffering(FloatsOf(OldOf(change)), FloatsOf(NewOf(change))) :
            ChangedByMoreThanTenth(FloatsOf(OldOf(change))[k], FloatsOf(NewOf(change))[k])
    THEN "CRITICAL"
    ELSE IF EitherHasKeyword(change, CriticalKw) THEN "CRITICAL"
    ELSE IF EitherHasKeyword(change, MajorKw) THEN "MAJOR"
    ELSE "MINOR"

\* C23: the severity of a change of a line-by-line compare is CRITICAL if the
\* numeric sets differ and the first differing number changed by more than
\* 10%, otherwise CRITICAL if a legal-risk keyword is in either text,
\* otherwise MAJOR if a financial or temporal keyword is, otherwise MINOR
SeverityCascade ==
    (Compared /\ mode = "line-by-line") =>
      \A k \in 1 .. Len(compared[1].changes) :
        compared[1].changes[k].severity = CascadeSeverity(compared[1].changes[k])

\* MINOR < MAJOR < CRITICAL
SeverityRank(severity) ==
    IF severity = "CRITICAL" THEN 2 ELSE IF severity = "MAJOR" THEN 1 ELSE 0

\* C24: the severity of a change of a semantic compare is at least the
\* severity _calculate_severity gives its pair of lines
SemanticOnlyRaises ==
    (Compared /\ mode = "semantic") =>
      \A k \in 1 .. Len(compared[1].changes) :
        LET change == compared[1].changes[k]
        IN SeverityRank(change.severity)
             >= SeverityRank(CalculateSeverity(OldOf(change), NewOf(change)))

(***************************************************************************)
(* Properties of a merge seen from its documents                           *)
(***************************************************************************)
\* C25: under a strategy other than MANUAL, a three-way merge whose second
\* branch has the base's lines returns no conflict and a merged_content whose
\* lines are the lines of the first branch
UnchangedBranchReproduces ==
    (/\ Merged
     /\ MergePath(documents, base_version_id) = "three_way"
     /\ strategy # "MANUAL"
     /\ SplitIntoBlocks(RestOfCall[2].content) = BaseLinesOfCall)
    => /\ result[1].conflicts = <<>>
       /\ SplitIntoBlocks(result[1].merged_content) = SplitIntoBlocks(RestOfCall[1].content)

\* the conflicts of a merge result that have no consensus_variant
OpenConflicts(r) == SelectSeq(r.conflicts, LAMBDA c : c.consensus_variant = None)

\* for every conflict without consensus_variant, in their order, the
\* resolution that chooses the second document's variant
SecondVariantResolutions(r) ==
    [k \in 1 .. Len(OpenConflicts(r)) |->
        [conflict_index |-> OpenConflicts(r)[k].index, chosen_variant_index |-> 1]]

\* C26: a two-way merge followed by the resolutions that choose variant 1 for
\* every conflict without consensus_variant gives a content whose lines are
\* the lines of the second document; without such a conflict the merged
\* content has these lines already
TwoWayRoundTrip ==
    (Merged /\ MergePath(documents, base_version_id) = "two_way") =>
      /\ OpenConflicts(result[1]) = <<>>
           => SplitIntoBlocks(result[1].merged_content) = Lines2OfCall
      /\ (pc = "applied" /\ resolutions = SecondVariantResolutions(result[1]))
           => /\ applied[1].raised = None
              /\ SplitIntoBlocks(applied[1].content) = Lines2OfCall

(***************************************************************************)
(* Properties of the router's stored merge over a run of requests          *)
(***************************************************************************)
\* C27: after any create, resolve-conflict and resolve-bulk requests, the
\* content a successful finalize stores as the merged document holds no
\* placeholder token
FinalizedNoPlaceholder ==
    \A k \in 1 .. Len(db_documents) : PlaceholderIndices(db_documents[k], 1) = <<>>

\* C28: no request takes a merge that cancel has set to FAILED to COMPLETED
\* or adds a merged document from it, and no request takes a finalized merge
\* (COMPLETED with a result version) to FAILED
CancellationFinal ==
    [][/\ (db_merge # None /\ db_merge[1].status = "FAILED")
            => /\ db_merge'[1].status # "COMPLETED"
               /\ db_documents' = db_documents
       /\ (/\ db_merge # None
           /\ db_merge[1].status = "COMPLETED"
           /\ db_merge[1].result_version_id # None)
            => db_merge'[1].status # "FAILED"]_vars

\* C29: a create request that follows a preview of the same documents and
\* strategy stores the merge as COMPLETED exactly when the preview answered
\* can_auto_merge = true
PreviewAgrees ==
    [][(/\ response # None
        /\ "can_auto_merge" \in DOMAIN response[1]
        /\ db_merge = None
        /\ db_merge' # None)
       => (response[1].can_auto_merge <=> db_merge'[1].status = "COMPLETED")]_vars

(***************************************************************************)
(* Properties of the side-by-side columns                                  *)
(***************************************************************************)
\* the rows of a column that show a line
ShownRows(column) == {k \in 1 .. Len(column) : column[k].type # "empty"}

\* every row of the column that shows a line carries the 1-based position of
\* that line in lines: the line at that position is the row's text, and the
\* positions grow down the column
TrueLineNumbers(column, lines) ==
    /\ \A k \in ShownRows(column) :
         /\ column[k].num # <<>>
         /\ column[k].num[1] \in 1 .. Len(lines)
         /\ lines[column[k].num[1]] = column[k].text
    /\ \A k, n \in ShownRows(column) :
         k < n => column[k].num[1] < column[n].num[1]

\* C30: for both settings of show_full, the left and right columns of
\* diff_lines have the same number of rows, and every non-empty row's num is
\* the 1-based position of the row's line in its own document, left rows in
\* the first text and right rows in the second
SideBySideTrueNumbers ==
    Compared =>
      /\ Len(compared[1].diff_lines.left) = Len(compared[1].diff_lines.right)
      /\ TrueLineNumbers(compared[1].diff_lines.left, SplitLines(text1))
      /\ TrueLineNumbers(compared[1].diff_lines.right, SplitLines(text2))

====
